---- MODULE Spec2Model ----
(***************************************************************************)
(* A model of the dotplot pipeline of bin/plotter.py: pixel-scale          *)
(* selection, line rasterization, block cropping, coverage merging, range  *)
(* trimming, axis ordering and the per-group driver.                       *)
(*                                                                         *)
(* Each component has its own specification (SpecScale, SpecRaster, ...):  *)
(* its Init draws the component's inputs from bounded sets and its actions *)
(* are the component's steps.  The variables of the other components stay  *)
(* at their idle values.                                                   *)
(***************************************************************************)
EXTENDS Integers, Sequences, FiniteSets, TLC

\* ------------------------------------------------------------------ bounds
\* get_bp_per_pix: number of ranges, largest range size, border, budget
MaxRanges == 3
MaxSize == 4
MaxBorder == 2
MaxPixels == 8
\* rasterizer: largest scale, bases on each axis, blocks drawn on one grid
MaxScale == 3
AxisLen1 == 4
AxisLen2 == 3
MaxBlocks == 2
\* croppedBlocks: bases of the two sequences, blocks per alignment
CropLen1 == 3
CropLen2 == 2
MaxAlnBlocks == 2
\* mergedRanges: intervals in one coverage list, largest coordinate
MaxCover == 3
MergeLen == 5
\* trimmed: largest coordinate, largest pad, largest minAlignedBases
TrimLen == 6
MaxPad == 1
MaxAligned == 2
\* lastDotplot: groups in one input, ranges on one axis of a group, size of
\* a range, largest --width / --height
MaxGroups == 2
PlotMaxRanges == 2
PlotMaxSize == 2
MaxPlotPixels == 3
\* the default of --border-pixels
BorderPixels == 1
\* readAlignments: records in one input
MaxRecords == 3

\* ----------------------------------------------------------------- helpers
RECURSIVE SumSeq(_)
\* Python's sum() over a list of integers
SumSeq(s) == IF s = <<>> THEN 0 ELSE Head(s) + SumSeq(Tail(s))

\* Python's max() / min() of two values
Max2(a, b) == IF a >= b THEN a ELSE b
Min2(a, b) == IF a <= b THEN a ELSE b

\* Python's x // y (floor division) for any non-zero divisor
FloorDiv(x, y) == IF y > 0 THEN x \div y ELSE (-x) \div (-y)

\* Python's x % y for a positive divisor
PyMod(x, y) == x % y

\* all sequences over S with length in lo..hi
SeqsOf(S, lo, hi) == UNION {[1..n -> S] : n \in lo..hi}

\* the set of elements of a sequence
Range(s) == {s[i] : i \in DOMAIN s}

VARIABLES
    \* ---- get_bp_per_pix
    rangeSizes,       \* argument: the sizes of the ranges of one axis
    pixTweenRanges,   \* argument: border pixels between ranges
    maxPixels,        \* argument: the pixel budget of the axis
    negLimit,         \* local of get_bp_per_pix
    negBpPerPix,      \* local of get_bp_per_pix
    scalePc,          \* position in get_bp_per_pix
    scaleResult,      \* the value returned
    searchSteps,      \* number of evaluations of the loop test so far
    \* ---- alignmentPixels / drawLineForward / drawLineReverse
    hits,             \* the image data: a flat list of width*height values
    width,            \* image width in pixels
    height,           \* image height in pixels
    bp_per_pix,       \* bases per pixel
    beg1,             \* drawLine*: current position on axis 1
    beg2,             \* drawLine*: current position on axis 2
    size,             \* drawLine*: bases still to draw
    lineKind,         \* "fwd" in drawLineForward, "rev" in drawLineReverse
    rasterPc,         \* "ready" between calls, "loop" inside a walk
    lineArgs,         \* the (beg1, beg2, size) the current/last walk was called with
    walk,             \* the list indices written by the current/last walk, in order
    fwdCells,         \* indices of the cells covered by the forward blocks drawn
    revCells,         \* indices of the cells covered by the reverse blocks drawn
    numDrawn,         \* number of blocks drawn on this grid
    \* ---- croppedBlocks, as called by readAlignments
    blocks,           \* argument: the gapless blocks of one alignment
    ranges1,          \* argument: the requested ranges of sequence 1, sorted
    ranges2,          \* argument: the requested ranges of sequence 2, sorted
    strand1,          \* "-" when the blocks are in reverse-strand coordinates on axis 1
    strand2,          \* the same for axis 2
    bList,            \* b = list(croppedBlocks(...))
    cropTrace,        \* for each yielded block: the range pair and input block it came from
    cropPc,           \* "start" before the call, "done" after it
    \* ---- mergedRangesPerSeq, for the coverage list of one sequence
    coverList,        \* v: the (begin, end) intervals appended by updateSeqs
    mergedOnce,       \* list(mergedRanges(v)) after v.sort()
    mergedTwice,      \* the same applied to mergedOnce
    mergePc,          \* "raw", "merged", "twice"
    \* ---- trimmed
    seqRanges,        \* argument: (seqName, rangeBeg, rangeEnd) of each input range
    coverDict,        \* argument: seqName -> merged coverage intervals
    minAlignedBases,  \* argument
    maxGapFrac,       \* argument: the option text, one or two fractions (num, den)
    endPad,           \* argument
    midPad,           \* argument
    cutRanges,        \* list(trimmed(...)), or "IndexError"
    trimPc,           \* "start" before the call, "done" after it
    \* ---- lastDotplot and allSortedRanges
    optStrands1,      \* opts.strands1: the primary value, or primary and secondary
    optStrands2,      \* opts.strands2
    optSort1,         \* opts.sort1
    optSort2,         \* opts.sort2
    optWidth,         \* opts.width
    optHeight,        \* opts.height
    count,            \* the number the next image is saved under
    groupNum,         \* how many groups readAlignments has yielded
    numAlignments,    \* len(alignments) of the current group
    strandInfo,       \* the strand options rangesWithStrandInfo was applied with
    s1,               \* allSortedRanges: the order of the primary ranges of axis 1
    s2,               \* the same for axis 2
    t1,               \* the order of the secondary ranges of axis 1
    t2,               \* the same for axis 2
    sortLog,          \* the calls of mySortedRanges so far, in order
    rangeSizes1,      \* the sizes of the sorted ranges of axis 1
    rangeSizes2,      \* the same for axis 2
    bpPerPix1,        \* the scale chosen for axis 1 (0: not chosen)
    bpPerPix2,        \* the same for axis 2
    bpPerPix,         \* max(bpPerPix1, bpPerPix2) (0: not chosen)
    imWidth,          \* width of the image
    imHeight,         \* height of the image
    gridCells,        \* len(hits) once alignmentPixels has allocated it, else -1
    images,           \* the files written by im.save, in order
    errorMsg,         \* the message of the exception raised, "" if none
    plotPc,           \* position in lastDotplot
    \* ---- readAlignments(split=True) and the loop of lastDotplot that consumes it
    inLines,          \* the records alignmentInput yields: names, and whether the record passes lines 251-256
    linePos,          \* number of records the for loop has taken
    splitBy,          \* local of readAlignments
    alignments,       \* local of readAlignments: (seqName1, seqName2, record number)
    seqRanges1,       \* local of readAlignments: the names whose ranges are registered
    coverDict1,       \* local of readAlignments: (name, record numbers) in insertion order
    seqRanges2,       \* the same for axis 2
    coverDict2,       \* the same for axis 2
    yielded,          \* the groups yielded so far
    imageCount,       \* count of lastDotplot
    imagesWritten,    \* the numbers im.save has written files under, with the group
    readPc,           \* "loop", "yield" (suspended at line 242), "last" (at line 265), "done", "error"
    \* ---- lastDotplot: the margins around the plot (0 without labels and annotations)
    lMargin,          \* left margin: the width of the axis-2 labels
    rMargin,          \* right margin: the width of the axis-2 annotations
    tMargin,          \* top margin: the height of the axis-1 labels
    bMargin,          \* bottom margin: the height of the axis-1 annotations
    \* ---- the max-sequence filter and the secondary alignments of lastDotplot (lines 972-995)
    optMaxseqs,       \* opts.maxseqs
    alignmentsA,      \* alignments of lastDotplot: the primary alignments as (seqName1, seqName2)
    cutRanges1,       \* cutRanges1 of lastDotplot: (seqName, beg, end)
    cutRanges2,       \* cutRanges2 of lastDotplot
    alignmentsB,      \* the secondary alignments as (seqName1, seqName2)
    cutRangesB1,      \* cutRangesB1 of lastDotplot
    cutRangesB2,      \* cutRangesB2 of lastDotplot
    axisRanges1,      \* first list returned by allSortedRanges, s1 + t1
    axisRanges2,      \* second list returned by allSortedRanges, s2 + t2
    filterPc,         \* "filter1" (line 972), "filter2" (977), "secondary" (983), "sort" (994), "sorted"
    \* ---- readAlignments with --seq1 requests, then the cut of lastDotplot (lines 228-267, 963-968)
    seqRequests1,     \* seqRequests1 of readAlignments: (pattern, beg, end)
    ingestPos,        \* number of records the for loop of readAlignments has taken
    ingestKept,       \* len(alignments)
    ingestRanges1,    \* seqRanges1 of readAlignments: (seqName, beg, end)
    ingestCover1,     \* coverDict1[seqName1] of readAlignments, empty while the name is not a key
    ingestCover2,     \* coverDict2[seqName2]
    ingestCut1,       \* cutRanges1 of lastDotplot
    ingestPc,         \* "read", "cut", "done", "error" (no alignments), "IndexError" (raised by trimmed)
    \* ---- the pixel placement of lastDotplot and alignmentPixels (lines 1027-1045, 580-605, 880-893)
    sortedRanges1,    \* sortedRanges1 of lastDotplot: (seqName, beg, end, strandNum)
    sortedRanges2,    \* sortedRanges2 of lastDotplot
    placeScale,       \* bpPerPix of lastDotplot
    placeMargin1,     \* lMargin
    placeMargin2,     \* tMargin
    rangePix1,        \* (rangePixBegs1[i], rangePixLens1[i]) for each range of sortedRanges1
    rangePix2,        \* the same for axis 2
    rangeDict1,       \* rangeDict1[seqName]: sorted (rangeBeg, rangeEnd, isReverseRange, origin)
    rangeDict2,       \* rangeDict2[seqName]
    placeWidth,       \* width of lastDotplot, before the right margin is added
    placeHeight,      \* height, before the bottom margin is added
    placeBlocks,      \* the blocks of the alignment handed to alignmentPixels
    placeWrites,      \* the cells alignmentPixels writes for it: (q1, q2, bit, block index)
    placePc,          \* "layout", "draw", "drawn", "TypeError" (strandAndOrigin returned None)
    \* ---- mySortedRanges with sort options 1 and 2 (lines 371-381, 411-428)
    sortRanges,       \* seqRanges of mySortedRanges: (seqName, beg, end, strandNum), a name being its list of characters
    sortOption,          \* sortOpt of mySortedRanges
    sortedOut,        \* the list mySortedRanges returns
    sortPc,           \* "call", "return"
    \* ---- pixelData on its own (lines 541-556)
    pixSizes,         \* rangeSizes of pixelData
    pixScale,         \* bp_per_pix
    pixBorder,        \* pixTweenRanges
    pixMargin,        \* margin
    pixResult,        \* what pixelData returns
    pixPc,            \* "call", "return"
    \* ---- the coverage lists readAlignments appends to (lines 216-226, 257-262)
    coverRanges1,     \* coverDict1[seqName1]
    coverRanges2,     \* coverDict2[seqName2]
    \* ---- rangesWithStrandInfo (lines 355-369)
    strandRanges,     \* seqRanges: (seqName, beg, end)
    strandOption,     \* strandOpt
    strandAlignments, \* alignments: (seqName1, seqName2, blocks)
    strandIndex,      \* seqIndex
    strandOut,        \* the list rangesWithStrandInfo returns
    strandPc,         \* "call", "return"
    \* ---- mySortedRanges with sort option "3" (lines 383-409, 421-428)
    modeCall,         \* "primary": line 447 or 450, "secondary": line 451 or 452
    modeRanges,       \* seqRanges: (seqName, beg, end, strandNum)
    modeIndex,        \* seqIndex
    modeAlignments,   \* alignments: (seqName1, seqName2, blocks)
    modeOther,        \* otherRanges
    modeOut,          \* the list mySortedRanges returns
    modePc,           \* "call", "return", "KeyError"
    \* ---- mafBlocks (lines 74-94)
    mafBeg1,          \* beg1
    mafBeg2,          \* beg2
    mafSeq1,          \* seq1: the aligned text of the first row, a list of characters
    mafSeq2,          \* seq2
    mafOut,           \* list(mafBlocks(...))
    mafPc             \* "call", "return"

scaleVars == <<rangeSizes, pixTweenRanges, maxPixels, negLimit, negBpPerPix,
               scalePc, scaleResult, searchSteps>>

rasterVars == <<hits, width, height, bp_per_pix, beg1, beg2, size, lineKind,
                rasterPc, lineArgs, walk, fwdCells, revCells, numDrawn>>

cropVars == <<blocks, ranges1, ranges2, strand1, strand2, bList, cropTrace, cropPc>>

mergeVars == <<coverList, mergedOnce, mergedTwice, mergePc>>

trimVars == <<seqRanges, coverDict, minAlignedBases, maxGapFrac, endPad, midPad,
              cutRanges, trimPc>>

plotVars == <<optStrands1, optStrands2, optSort1, optSort2, optWidth, optHeight,
              count, groupNum, numAlignments, strandInfo, s1, s2, t1, t2, sortLog,
              rangeSizes1, rangeSizes2, bpPerPix1, bpPerPix2, bpPerPix,
              imWidth, imHeight, gridCells, images, errorMsg, plotPc>>

readVars == <<inLines, linePos, splitBy, alignments, seqRanges1, coverDict1, seqRanges2, coverDict2, yielded, imageCount, imagesWritten, readPc>>

marginVars == <<lMargin, rMargin, tMargin, bMargin>>

filterVars == <<optMaxseqs, alignmentsA, cutRanges1, cutRanges2, alignmentsB, cutRangesB1, cutRangesB2, axisRanges1, axisRanges2, filterPc>>

ingestVars == <<seqRequests1, ingestPos, ingestKept, ingestRanges1, ingestCover1, ingestCover2, ingestCut1, ingestPc>>

placeVars == <<sortedRanges1, sortedRanges2, placeScale, placeMargin1, placeMargin2, rangePix1, rangePix2, rangeDict1, rangeDict2, placeWidth, placeHeight, placeBlocks, placeWrites, placePc>>

orderVars == <<sortRanges, sortOption, sortedOut, sortPc>>

pixVars == <<pixSizes, pixScale, pixBorder, pixMargin, pixResult, pixPc>>

coverVars == <<coverRanges1, coverRanges2>>

strandVars == <<strandRanges, strandOption, strandAlignments, strandIndex, strandOut, strandPc>>

modeVars == <<modeCall, modeRanges, modeIndex, modeAlignments, modeOther, modeOut, modePc>>

mafVars == <<mafBeg1, mafBeg2, mafSeq1, mafSeq2, mafOut, mafPc>>

vars == <<scaleVars, rasterVars, cropVars, mergeVars, trimVars, plotVars,
         readVars,
         marginVars,
         filterVars,
         ingestVars,
         placeVars,
         orderVars,
         pixVars,
         coverVars,
         strandVars,
         modeVars,
         mafVars>>

ScaleIdle ==
    /\ rangeSizes = <<>>
    /\ pixTweenRanges = 0
    /\ maxPixels = 0
    /\ negLimit = 0
    /\ negBpPerPix = 0
    /\ scalePc = "idle"
    /\ scaleResult = 0
    /\ searchSteps = 0

RasterIdle ==
    /\ hits = <<>>
    /\ width = 0
    /\ height = 0
    /\ bp_per_pix = 1
    /\ beg1 = 0
    /\ beg2 = 0
    /\ size = 0
    /\ lineKind = "none"
    /\ rasterPc = "idle"
    /\ lineArgs = <<0, 0, 0>>
    /\ walk = <<>>
    /\ fwdCells = {}
    /\ revCells = {}
    /\ numDrawn = 0

CropIdle ==
    /\ blocks = <<>>
    /\ ranges1 = <<>>
    /\ ranges2 = <<>>
    /\ strand1 = "+"
    /\ strand2 = "+"
    /\ bList = <<>>
    /\ cropTrace = <<>>
    /\ cropPc = "idle"

MergeIdle ==
    /\ coverList = <<>>
    /\ mergedOnce = <<>>
    /\ mergedTwice = <<>>
    /\ mergePc = "idle"

TrimIdle ==
    /\ seqRanges = <<>>
    /\ coverDict = <<>>
    /\ minAlignedBases = 0
    /\ maxGapFrac = <<>>
    /\ endPad = 0
    /\ midPad = 0
    /\ cutRanges = <<>>
    /\ trimPc = "idle"

\* a name that no mySortedRanges result is bound to yet
Unbound == [ranges |-> "", mode |-> "unbound", from |-> <<>>]

\* the locals of lastDotplot that one turn of its loop assigns, before the turn
GroupFresh ==
    /\ strandInfo = <<>>
    /\ s1 = Unbound
    /\ s2 = Unbound
    /\ t1 = Unbound
    /\ t2 = Unbound
    /\ sortLog = <<>>
    /\ rangeSizes1 = <<>>
    /\ rangeSizes2 = <<>>
    /\ bpPerPix1 = 0
    /\ bpPerPix2 = 0
    /\ bpPerPix = 0
    /\ imWidth = 0
    /\ imHeight = 0
    /\ gridCells = -1

PlotIdle ==
    /\ optStrands1 = <<>>
    /\ optStrands2 = <<>>
    /\ optSort1 = <<>>
    /\ optSort2 = <<>>
    /\ optWidth = 0
    /\ optHeight = 0
    /\ count = 0
    /\ groupNum = 0
    /\ numAlignments = 0
    /\ GroupFresh
    /\ images = <<>>
    /\ errorMsg = ""
    /\ plotPc = "idle"

ReadIdle ==
    /\ inLines = <<>>
    /\ linePos = 0
    /\ splitBy = ""
    /\ alignments = <<>>
    /\ seqRanges1 = <<>>
    /\ coverDict1 = <<>>
    /\ seqRanges2 = <<>>
    /\ coverDict2 = <<>>
    /\ yielded = <<>>
    /\ imageCount = 0
    /\ imagesWritten = <<>>
    /\ readPc = "idle"

MarginIdle ==
    /\ lMargin = 0
    /\ rMargin = 0
    /\ tMargin = 0
    /\ bMargin = 0

FilterIdle ==
    /\ optMaxseqs = 0
    /\ alignmentsA = <<>>
    /\ cutRanges1 = <<>>
    /\ cutRanges2 = <<>>
    /\ alignmentsB = <<>>
    /\ cutRangesB1 = <<>>
    /\ cutRangesB2 = <<>>
    /\ axisRanges1 = <<>>
    /\ axisRanges2 = <<>>
    /\ filterPc = "idle"

IngestIdle ==
    /\ seqRequests1 = <<>>
    /\ ingestPos = 0
    /\ ingestKept = 0
    /\ ingestRanges1 = <<>>
    /\ ingestCover1 = <<>>
    /\ ingestCover2 = <<>>
    /\ ingestCut1 = <<>>
    /\ ingestPc = "idle"

PlaceIdle ==
    /\ sortedRanges1 = <<>>
    /\ sortedRanges2 = <<>>
    /\ placeScale = 0
    /\ placeMargin1 = 0
    /\ placeMargin2 = 0
    /\ rangePix1 = <<>>
    /\ rangePix2 = <<>>
    /\ rangeDict1 = <<>>
    /\ rangeDict2 = <<>>
    /\ placeWidth = 0
    /\ placeHeight = 0
    /\ placeBlocks = <<>>
    /\ placeWrites = <<>>
    /\ placePc = "idle"

SortIdle ==
    /\ sortRanges = <<>>
    /\ sortOption = ""
    /\ sortedOut = <<>>
    /\ sortPc = "idle"

PixIdle ==
    /\ pixSizes = <<>>
    /\ pixScale = 0
    /\ pixBorder = 0
    /\ pixMargin = 0
    /\ pixResult = <<>>
    /\ pixPc = "idle"

CoverIdle ==
    /\ coverRanges1 = <<>>
    /\ coverRanges2 = <<>>

StrandIdle ==
    /\ strandRanges = <<>>
    /\ strandOption = ""
    /\ strandAlignments = <<>>
    /\ strandIndex = 0
    /\ strandOut = <<>>
    /\ strandPc = "idle"

ModeIdle ==
    /\ modeCall = ""
    /\ modeRanges = <<>>
    /\ modeIndex = 0
    /\ modeAlignments = <<>>
    /\ modeOther = <<>>
    /\ modeOut = <<>>
    /\ modePc = "idle"

MafIdle ==
    /\ mafBeg1 = 0
    /\ mafBeg2 = 0
    /\ mafSeq1 = <<>>
    /\ mafSeq2 = <<>>
    /\ mafOut = <<>>
    /\ mafPc = "idle"

\* the variables of the components other than h keep their idle values
IdleBut(h) ==
    /\ IF h # "scale" THEN ScaleIdle ELSE TRUE
    /\ IF h # "raster" THEN RasterIdle ELSE TRUE
    /\ IF h # "crop" THEN CropIdle ELSE TRUE
    /\ IF h # "merge" THEN MergeIdle ELSE TRUE
    /\ IF h # "trim" THEN TrimIdle ELSE TRUE
    /\ IF h \notin {"plot", "layout"} THEN PlotIdle ELSE TRUE
    /\ IF h # "read" THEN ReadIdle ELSE TRUE
    /\ IF h # "layout" THEN MarginIdle ELSE TRUE
    /\ IF h # "filter" THEN FilterIdle ELSE TRUE
    /\ IF h # "ingest" THEN IngestIdle ELSE TRUE
    /\ IF h # "place" THEN PlaceIdle ELSE TRUE
    /\ IF h # "sort" THEN SortIdle ELSE TRUE
    /\ IF h # "pix" THEN PixIdle ELSE TRUE
    /\ IF h # "cover" THEN CoverIdle ELSE TRUE
    /\ IF h # "strand" THEN StrandIdle ELSE TRUE
    /\ IF h # "mode" THEN ModeIdle ELSE TRUE
    /\ IF h # "maf" THEN MafIdle ELSE TRUE

FrameBut(h) ==
    /\ IF h # "scale" THEN UNCHANGED scaleVars ELSE TRUE
    /\ IF h # "raster" THEN UNCHANGED rasterVars ELSE TRUE
    /\ IF h # "crop" THEN UNCHANGED cropVars ELSE TRUE
    /\ IF h # "merge" THEN UNCHANGED mergeVars ELSE TRUE
    /\ IF h # "trim" THEN UNCHANGED trimVars ELSE TRUE
    /\ IF h # "plot" THEN UNCHANGED plotVars ELSE TRUE
    /\ IF h # "read" THEN UNCHANGED readVars ELSE TRUE
    /\ UNCHANGED marginVars
    /\ IF h # "filter" THEN UNCHANGED filterVars ELSE TRUE
    /\ IF h # "ingest" THEN UNCHANGED ingestVars ELSE TRUE
    /\ IF h # "place" THEN UNCHANGED placeVars ELSE TRUE
    /\ IF h # "sort" THEN UNCHANGED orderVars ELSE TRUE
    /\ IF h # "pix" THEN UNCHANGED pixVars ELSE TRUE
    /\ IF h # "cover" THEN UNCHANGED coverVars ELSE TRUE
    /\ IF h # "strand" THEN UNCHANGED strandVars ELSE TRUE
    /\ IF h # "mode" THEN UNCHANGED modeVars ELSE TRUE
    /\ IF h # "maf" THEN UNCHANGED mafVars ELSE TRUE

\* ================================================================== scale
\* div_ceil(x, y): x / y rounded up, via divmod
div_ceil(x, y) ==
    LET q == FloorDiv(x, y)
        r == x - q * y
    IN  q + (IF r # 0 THEN 1 ELSE 0)

\* get_bp_per_pix, line 531
MaxPixelsInRanges(maxPix, border, numOfRanges) ==
    maxPix - border * (numOfRanges - 1)

CantFitOrEqual(maxPixelsInRanges, numOfRanges) ==
    maxPixelsInRanges <= numOfRanges

\* get_bp_per_pix, line 532: the test that raises "can't fit the image"
CantFit(maxPixelsInRanges, numOfRanges) ==
    maxPixelsInRanges < numOfRanges

FirstNegBpPerPixTooLow(sizes, negLim) ==
    FloorDiv(SumSeq(sizes), negLim) - 1

\* get_bp_per_pix, line 535: the first candidate, as a negated scale
FirstNegBpPerPix(sizes, negLim) ==
    FloorDiv(SumSeq(sizes), negLim)

\* get_bp_per_pix, line 537: sum(i // negBpPerPix for i in rangeSizes)
NegPixelSum(sizes, negBpp) ==
    SumSeq([i \in DOMAIN sizes |-> FloorDiv(sizes[i], negBpp)])

ScaleInit ==
    /\ rangeSizes \in SeqsOf(1..MaxSize, 1, MaxRanges)
    /\ pixTweenRanges \in 0..MaxBorder
    /\ maxPixels \in 0..MaxPixels
    /\ negLimit = 0
    /\ negBpPerPix = 0
    /\ scalePc = "start"
    /\ scaleResult = 0
    /\ searchSteps = 0

\* lines 530-535: the budget test and the starting candidate
GetBpPerPixStart ==
    /\ scalePc = "start"
    /\ LET numOfRanges == Len(rangeSizes)
           maxPixelsInRanges ==
               MaxPixelsInRanges(maxPixels, pixTweenRanges, numOfRanges)
       IN  IF CantFit(maxPixelsInRanges, numOfRanges)
           THEN /\ scalePc' = "error"
                /\ UNCHANGED <<negLimit, negBpPerPix>>
           ELSE /\ negLimit' = -maxPixelsInRanges
                /\ negBpPerPix' = FirstNegBpPerPix(rangeSizes, -maxPixelsInRanges)
                /\ scalePc' = "search"
    /\ UNCHANGED <<rangeSizes, pixTweenRanges, maxPixels, scaleResult, searchSteps>>
    /\ FrameBut("scale")

\* lines 536-539: one turn of the while loop
GetBpPerPixLoop ==
    /\ scalePc = "search"
    /\ searchSteps' = searchSteps + 1
    /\ IF NegPixelSum(rangeSizes, negBpPerPix) >= negLimit
       THEN /\ scaleResult' = -negBpPerPix
            /\ scalePc' = "done"
            /\ UNCHANGED negBpPerPix
       ELSE /\ negBpPerPix' = negBpPerPix - 1
            /\ UNCHANGED <<scaleResult, scalePc>>
    /\ UNCHANGED <<rangeSizes, pixTweenRanges, maxPixels, negLimit>>
    /\ FrameBut("scale")

InitScale == ScaleInit /\ IdleBut("scale")
NextScale == GetBpPerPixStart \/ GetBpPerPixLoop
SpecScale == InitScale /\ [][NextScale]_vars

\* ------------------------------------------------------- claims on scale
\* the budget predicate of the specification: S fits the pixel budget
CeilOf(x, s) == (x + s - 1) \div s
FitsBudget(s) ==
    SumSeq([i \in DOMAIN rangeSizes |-> CeilOf(rangeSizes[i], s)])
        + pixTweenRanges * (Len(rangeSizes) - 1) <= maxPixels
LargestSize == CHOOSE m \in Range(rangeSizes) : \A x \in Range(rangeSizes) : x <= m
\* the precondition of C1: budget - border*(n-1) >= n
BudgetHoldsAllRanges ==
    maxPixels - pixTweenRanges * (Len(rangeSizes) - 1) >= Len(rangeSizes)

\* C1: with positive sizes and budget - border*(n-1) >= n, get_bp_per_pix
\* terminates (the candidate scale never passes the largest range size) and
\* returns the smallest S >= 1 that satisfies the budget: S fits, and S = 1
\* or S - 1 does not fit.
C1_MinimalScale ==
    /\ (BudgetHoldsAllRanges /\ scalePc # "start") => scalePc \in {"search", "done"}
    /\ scalePc = "search" => (-negBpPerPix) \in 1..LargestSize
    /\ scalePc = "done" =>
          /\ scaleResult >= 1
          /\ FitsBudget(scaleResult)
          /\ scaleResult = 1 \/ ~FitsBudget(scaleResult - 1)
          /\ \A s \in 1..(scaleResult - 1) : ~FitsBudget(s)

\* C1 witness: a scale above 1 was returned after the loop test failed at
\* least once, for several ranges with a border between them
C1_Witness ==
    /\ scalePc = "done"
    /\ scaleResult > 1
    /\ searchSteps > 1
    /\ Len(rangeSizes) > 1
    /\ pixTweenRanges > 0

\* C8: the sizing error is raised exactly when budget - border*(n-1) < n,
\* before the loop test is ever evaluated; otherwise a scale is returned.
C8_SizingError ==
    /\ scalePc = "error" => (~BudgetHoldsAllRanges /\ searchSteps = 0)
    /\ scalePc \in {"search", "done"} => BudgetHoldsAllRanges
    /\ scalePc = "done" => scaleResult >= 1
    /\ searchSteps <= LargestSize

\* C8 witness: the error is raised although the budget is positive, because
\* the borders leave fewer pixels than there are ranges
C8_Witness ==
    /\ scalePc = "error"
    /\ maxPixels >= Len(rangeSizes)
    /\ searchSteps = 0

\* ================================================================= raster
\* Python's divmod(x, y) for y > 0: quotient and remainder
DivmodQ(x, y) == FloorDiv(x, y)
DivmodR(x, y) == x - FloorDiv(x, y) * y

AssignBit(v, b) == b

\* v | b for a grid value v in 0..3 and a single bit b in {1, 2}
BitOr(v, b) == IF (v \div b) % 2 = 1 THEN v ELSE v + b

\* hits[i]: a Python list index; -len..-1 count from the end, anything else
\* outside 0..len-1 raises IndexError (here: -1)
ListIndex(i, len) ==
    IF 0 <= i /\ i < len THEN i
    ELSE IF -len <= i /\ i < 0 THEN i + len
    ELSE -1

NextPixForwardFarthest(s, r1, r2) == Max2(s - r1, s - r2)

\* drawLineForward, line 563: bases up to the next pixel boundary on either axis
NextPixForward(s, r1, r2) == Min2(s - r1, s - r2)

NextPixReverseAscending(s, r1, r2) == Min2(s - r1, s - r2)

\* drawLineReverse, line 574: axis 1 ascends, axis 2 descends
NextPixReverse(s, r1, r2) == Min2(s - r1, r2 + 1)

\* hits = [0] * (width * height), line 590, for axes of AxisLen1 and AxisLen2
\* bases shown from pixel 0 at scale bp_per_pix (pixelData with margin 0)
RasterInit ==
    /\ bp_per_pix \in 1..MaxScale
    /\ width = div_ceil(AxisLen1, bp_per_pix)
    /\ height = div_ceil(AxisLen2, bp_per_pix)
    /\ hits = [i \in 0..(width * height - 1) |-> 0]
    /\ beg1 = 0
    /\ beg2 = 0
    /\ size = 0
    /\ lineKind = "none"
    /\ rasterPc = "ready"
    /\ lineArgs = <<0, 0, 0>>
    /\ walk = <<>>
    /\ fwdCells = {}
    /\ revCells = {}
    /\ numDrawn = 0

\* the cells of a forward block: {(floor((b1+k)/S), floor((b2+k)/S)) : 0 <= k < n},
\* each as its index row * width + column
ForwardCells(b1, b2, n) ==
    {((b2 + k) \div bp_per_pix) * width + ((b1 + k) \div bp_per_pix) : k \in 0..(n - 1)}

\* the cells of a reverse block: axis 1 ascending, axis 2 descending
ReverseCells(b1, b2, n) ==
    {((b2 - k) \div bp_per_pix) * width + ((b1 + k) \div bp_per_pix) : k \in 0..(n - 1)}

\* alignmentPixels, lines 600-601: a call of drawLineForward for a block that
\* lies inside the two axes
CallDrawLineForward ==
    /\ rasterPc = "ready"
    /\ numDrawn < MaxBlocks
    /\ \E b1 \in 0..(AxisLen1 - 1), b2 \in 0..(AxisLen2 - 1), n \in 1..AxisLen1 :
          /\ b1 + n <= AxisLen1
          /\ b2 + n <= AxisLen2
          /\ beg1' = b1
          /\ beg2' = b2
          /\ size' = n
          /\ lineArgs' = <<b1, b2, n>>
    /\ lineKind' = "fwd"
    /\ rasterPc' = "loop"
    /\ walk' = <<>>
    /\ UNCHANGED <<hits, width, height, bp_per_pix, fwdCells, revCells, numDrawn>>
    /\ FrameBut("raster")

\* alignmentPixels, lines 603-604: a call of drawLineReverse for a block that
\* lies inside the two axes (beg2 is the block's highest axis-2 position)
CallDrawLineReverse ==
    /\ rasterPc = "ready"
    /\ numDrawn < MaxBlocks
    /\ \E b1 \in 0..(AxisLen1 - 1), b2 \in 0..(AxisLen2 - 1), n \in 1..AxisLen1 :
          /\ b1 + n <= AxisLen1
          /\ b2 - (n - 1) >= 0
          /\ beg1' = b1
          /\ beg2' = b2
          /\ size' = n
          /\ lineArgs' = <<b1, b2, n>>
    /\ lineKind' = "rev"
    /\ rasterPc' = "loop"
    /\ walk' = <<>>
    /\ UNCHANGED <<hits, width, height, bp_per_pix, fwdCells, revCells, numDrawn>>
    /\ FrameBut("raster")

\* drawLineForward, lines 559-567: one turn of the while loop
DrawLineForward ==
    /\ rasterPc = "loop"
    /\ lineKind = "fwd"
    /\ LET q1 == DivmodQ(beg1, bp_per_pix)
           r1 == DivmodR(beg1, bp_per_pix)
           q2 == DivmodQ(beg2, bp_per_pix)
           r2 == DivmodR(beg2, bp_per_pix)
           i == ListIndex(q2 * width + q1, width * height)
           next_pix == NextPixForward(bp_per_pix, r1, r2)
       IN  IF i < 0
           THEN /\ rasterPc' = "IndexError"
                /\ UNCHANGED <<hits, walk, beg1, beg2, size, fwdCells, numDrawn>>
           ELSE /\ hits' = [hits EXCEPT ![i] = BitOr(@, 1)]
                /\ walk' = Append(walk, i)
                /\ IF next_pix >= size
                   THEN /\ rasterPc' = "ready"
                        /\ fwdCells' = fwdCells \cup
                              ForwardCells(lineArgs[1], lineArgs[2], lineArgs[3])
                        /\ numDrawn' = numDrawn + 1
                        /\ UNCHANGED <<beg1, beg2, size>>
                   ELSE /\ beg1' = beg1 + next_pix
                        /\ beg2' = beg2 + next_pix
                        /\ size' = size - next_pix
                        /\ UNCHANGED <<rasterPc, fwdCells, numDrawn>>
    /\ UNCHANGED <<width, height, bp_per_pix, lineKind, lineArgs, revCells>>
    /\ FrameBut("raster")

\* drawLineReverse, lines 570-578: one turn of the while loop
DrawLineReverse ==
    /\ rasterPc = "loop"
    /\ lineKind = "rev"
    /\ LET q1 == DivmodQ(beg1, bp_per_pix)
           r1 == DivmodR(beg1, bp_per_pix)
           q2 == DivmodQ(beg2, bp_per_pix)
           r2 == DivmodR(beg2, bp_per_pix)
           i == ListIndex(q2 * width + q1, width * height)
           next_pix == NextPixReverse(bp_per_pix, r1, r2)
       IN  IF i < 0
           THEN /\ rasterPc' = "IndexError"
                /\ UNCHANGED <<hits, walk, beg1, beg2, size, revCells, numDrawn>>
           ELSE /\ hits' = [hits EXCEPT ![i] = BitOr(@, 2)]
                /\ walk' = Append(walk, i)
                /\ IF next_pix >= size
                   THEN /\ rasterPc' = "ready"
                        /\ revCells' = revCells \cup
                              ReverseCells(lineArgs[1], lineArgs[2], lineArgs[3])
                        /\ numDrawn' = numDrawn + 1
                        /\ UNCHANGED <<beg1, beg2, size>>
                   ELSE /\ beg1' = beg1 + next_pix
                        /\ beg2' = beg2 - next_pix
                        /\ size' = size - next_pix
                        /\ UNCHANGED <<rasterPc, revCells, numDrawn>>
    /\ UNCHANGED <<width, height, bp_per_pix, lineKind, lineArgs, fwdCells>>
    /\ FrameBut("raster")

InitRaster == RasterInit /\ IdleBut("raster")
NextRaster ==
    \/ CallDrawLineForward
    \/ CallDrawLineReverse
    \/ DrawLineForward
    \/ DrawLineReverse
SpecRaster == InitRaster /\ [][NextRaster]_vars

\* ------------------------------------------------------ claims on raster
HasBit(v, b) == (v \div b) % 2 = 1
NoRepeats(w) == \A i, j \in DOMAIN w : i # j => w[i] # w[j]

\* C2: for every S >= 1, beg1, beg2 >= 0 and L >= 1, drawLineForward
\* terminates (the walk writes at most L times), marks with bit 0 exactly the
\* cells {(floor((beg1+k)/S), floor((beg2+k)/S)) : 0 <= k < L}, writes each
\* of them exactly once, and with S = 1 writes exactly L distinct cells.
C2_ForwardWalk ==
    lineKind = "fwd" =>
        LET cells == ForwardCells(lineArgs[1], lineArgs[2], lineArgs[3])
        IN  /\ rasterPc # "IndexError"
            /\ NoRepeats(walk)
            /\ Range(walk) \subseteq cells
            /\ rasterPc = "loop" => (size >= 1 /\ Len(walk) + size <= lineArgs[3])
            /\ rasterPc = "ready" =>
                  /\ Range(walk) = cells
                  /\ \A c \in cells : HasBit(hits[c], 1)
                  /\ bp_per_pix = 1 =>
                        (Len(walk) = lineArgs[3] /\ Cardinality(cells) = lineArgs[3])

\* C2 witness: a finished forward walk at a scale above 1 whose two start
\* positions sit at different offsets inside their pixels, over several cells
C2_Witness ==
    /\ lineKind = "fwd"
    /\ rasterPc = "ready"
    /\ bp_per_pix > 1
    /\ lineArgs[1] % bp_per_pix # lineArgs[2] % bp_per_pix
    /\ Len(walk) >= 3

\* C3: every grid cell holds a value in {0,1,2,3}; the bits set by the
\* blocks drawn so far (and by the walk in progress) are still set; and
\* between walks a cell is 3 exactly when a forward and a reverse block
\* covered it, 1 or 2 when only one kind did, whatever the drawing order.
C3_GridBits ==
    rasterPc # "idle" =>
        /\ \A i \in DOMAIN hits : hits[i] \in 0..3
        /\ \A i \in fwdCells : HasBit(hits[i], 1)
        /\ \A i \in revCells : HasBit(hits[i], 2)
        /\ \A k \in DOMAIN walk :
              HasBit(hits[walk[k]], IF lineKind = "fwd" THEN 1 ELSE 2)
        /\ rasterPc = "ready" =>
              \A i \in DOMAIN hits :
                  hits[i] = (IF i \in fwdCells THEN 1 ELSE 0)
                            + (IF i \in revCells THEN 2 ELSE 0)

\* C3 witness: a forward block drawn after a reverse block left a cell at 3,
\* next to a cell only the reverse block covered and one only the forward did
C3_Witness ==
    /\ rasterPc = "ready"
    /\ lineKind = "fwd"
    /\ numDrawn = 2
    /\ \E i, j, k \in DOMAIN hits : hits[i] = 3 /\ hits[j] = 2 /\ hits[k] = 1

\* C18: for every S >= 1 and block of size L >= 1 with beg2 - (L-1) >= 0,
\* drawLineReverse terminates (the walk writes at most L times), marks with
\* bit 1 exactly the cells {(floor((beg1+k)/S), floor((beg2-k)/S)) : 0 <= k < L}
\* and writes each of them exactly once.
C18_ReverseWalk ==
    lineKind = "rev" =>
        LET cells == ReverseCells(lineArgs[1], lineArgs[2], lineArgs[3])
        IN  /\ rasterPc # "IndexError"
            /\ NoRepeats(walk)
            /\ Range(walk) \subseteq cells
            /\ rasterPc = "loop" => (size >= 1 /\ Len(walk) + size <= lineArgs[3])
            /\ rasterPc = "ready" =>
                  /\ Range(walk) = cells
                  /\ Len(walk) = Cardinality(cells)
                  /\ \A c \in cells : HasBit(hits[c], 2)

\* C18 witness: a finished reverse walk at a scale above 1 that crosses pixel
\* boundaries of the two axes at different steps, over several cells
C18_Witness ==
    /\ lineKind = "rev"
    /\ rasterPc = "ready"
    /\ bp_per_pix > 1
    /\ lineArgs[1] % bp_per_pix # (lineArgs[2] + 1) % bp_per_pix
    /\ Len(walk) >= 3

\* =================================================================== crop
RECURSIVE Flatten(_)
\* the concatenation of a list of lists (the order a nested for loop yields in)
Flatten(ss) == IF ss = <<>> THEN <<>> ELSE Head(ss) \o Flatten(Tail(ss))

\* croppedBlocks, lines 46-51: a requested range in the alignment's strand
CropRange(r, headBeg) == IF headBeg < 0 THEN <<-r[2], -r[1]>> ELSE r

ClipBlockKeepEmpty(blk, crop1, crop2) ==
    LET b1 == Max2(crop1[1], blk[1])
        e1 == Min2(crop1[2], blk[1] + blk[3])
        offset == blk[2] - blk[1]
        b2 == Max2(crop2[1], b1 + offset)
        e2 == Min2(crop2[2], e1 + offset)
    IN  IF b1 >= e1 THEN <<>>
        ELSE IF b2 > e2 THEN <<>>
        ELSE << <<b2 - offset, b2, e2 - b2>> >>

ClipBlockAxis1Only(blk, crop1, crop2) ==
    LET b1 == Max2(crop1[1], blk[1])
        e1 == Min2(crop1[2], blk[1] + blk[3])
        offset == blk[2] - blk[1]
        b2 == Max2(crop2[1], b1 + offset)
        e2 == e1 + offset
    IN  IF b1 >= e1 THEN <<>>
        ELSE IF b2 >= e2 THEN <<>>
        ELSE << <<b2 - offset, b2, e2 - b2>> >>

\* croppedBlocks, lines 52-60: one block against one pair of crop ranges;
\* the list of what is yielded for it (nothing, or one block)
ClipBlock(blk, crop1, crop2) ==
    LET b1 == Max2(crop1[1], blk[1])
        e1 == Min2(crop1[2], blk[1] + blk[3])
        offset == blk[2] - blk[1]
        b2 == Max2(crop2[1], b1 + offset)
        e2 == Min2(crop2[2], e1 + offset)
    IN  IF b1 >= e1 THEN <<>>
        ELSE IF b2 >= e2 THEN <<>>
        ELSE << <<b2 - offset, b2, e2 - b2>> >>

\* croppedBlocks, lines 42-60: everything yielded, in order, each block with
\* the indices of the range pair and of the input block it was cut from
CroppedBlocksTrace(blks, rs1, rs2) ==
    LET headBeg1 == blks[1][1]
        headBeg2 == blks[1][2]
        ForBlock(i1, i2, k) ==
            LET y == ClipBlock(blks[k], CropRange(rs1[i1], headBeg1),
                                        CropRange(rs2[i2], headBeg2))
            IN  [j \in DOMAIN y |-> [blk |-> y[j], r1 |-> i1, r2 |-> i2, src |-> k]]
        ForRange2(i1, i2) == Flatten([k \in DOMAIN blks |-> ForBlock(i1, i2, k)])
        ForRange1(i1) == Flatten([i2 \in DOMAIN rs2 |-> ForRange2(i1, i2)])
    IN  Flatten([i1 \in DOMAIN rs1 |-> ForRange1(i1)])

\* croppedBlocks: the blocks yielded
croppedBlocks(blks, rs1, rs2) ==
    LET t == CroppedBlocksTrace(blks, rs1, rs2) IN [i \in DOMAIN t |-> t[i].blk]

\* gapless blocks (beg1, beg2, size) inside a len1 x len2 box, size >= minSize
BoxBlocks(len1, len2, minSize) ==
    {<<b1, b2, n>> : b1 \in 0..len1, b2 \in 0..len2, n \in minSize..len1} \cap
    {x \in (0..len1) \X (0..len2) \X (minSize..len1) :
        x[1] + x[3] <= len1 /\ x[2] + x[3] <= len2}

\* blocks of one alignment: increasing and non-overlapping in both coordinates
Monotonic(blks) ==
    \A k \in 1..(Len(blks) - 1) :
        /\ blks[k + 1][1] >= blks[k][1] + blks[k][3]
        /\ blks[k + 1][2] >= blks[k][2] + blks[k][3]

Alignments(len1, len2, minSize) ==
    {a \in SeqsOf(BoxBlocks(len1, len2, minSize), 1, MaxAlnBlocks) : Monotonic(a)}

\* a reverse-strand position p of a sequence of length n is written p - n
InStrand(blks, str1, str2) ==
    [k \in DOMAIN blks |->
        <<blks[k][1] - (IF str1 = "-" THEN CropLen1 ELSE 0),
          blks[k][2] - (IF str2 = "-" THEN CropLen2 ELSE 0),
          blks[k][3]>>]

\* ranges (beg, end) with beg < end inside a sequence of length n
ValidRanges(n) == {r \in (0..n) \X (0..n) : r[1] < r[2]}
\* what rangesFromSeqName can yield for any request: max(beg, 0), min(end, seqLen)
AnyRanges(n) == (0..n) \X (0..n)

\* Python's sorted() order on pairs
PairLeq(x, y) == x[1] < y[1] \/ (x[1] = y[1] /\ x[2] <= y[2])
IsSortedPairs(rs) == \A i \in 1..(Len(rs) - 1) : PairLeq(rs[i], rs[i + 1])
SortedRangeLists(R, lo, hi) == {rs \in SeqsOf(R, lo, hi) : IsSortedPairs(rs)}

\* the numbers of requested ranges that match the sequence on axis 1 and 2
ReqShapes == {<<1, 1>>, <<1, 2>>, <<2, 1>>}

\* readAlignments, lines 251-254: the arguments of croppedBlocks.  Either
\* blocks of positive size against sorted lists of requested ranges, or blocks
\* of any size (0 included) with one axis cropped by any one request (empty and
\* inverted ranges included) and the other by its whole sequence.
CropInit ==
    /\ strand1 \in {"+", "-"}
    /\ strand2 \in {"+", "-"}
    /\ \/ /\ \E a \in Alignments(CropLen1, CropLen2, 1) :
                blocks = InStrand(a, strand1, strand2)
          /\ \E shape \in ReqShapes :
                /\ ranges1 \in SortedRangeLists(ValidRanges(CropLen1), shape[1], shape[1])
                /\ ranges2 \in SortedRangeLists(ValidRanges(CropLen2), shape[2], shape[2])
       \/ /\ \E a \in Alignments(CropLen1, CropLen2, 0) :
                blocks = InStrand(a, strand1, strand2)
          /\ \/ /\ ranges1 \in {<<r>> : r \in AnyRanges(CropLen1)}
                /\ ranges2 = << <<0, CropLen2>> >>
             \/ /\ ranges1 = << <<0, CropLen1>> >>
                /\ ranges2 \in {<<r>> : r \in AnyRanges(CropLen2)}
    /\ bList = <<>>
    /\ cropTrace = <<>>
    /\ cropPc = "start"

\* readAlignments, line 255: b = list(croppedBlocks(list(blocks), ranges1, ranges2))
CropBlocks ==
    /\ cropPc = "start"
    /\ bList' = croppedBlocks(blocks, ranges1, ranges2)
    /\ cropTrace' = CroppedBlocksTrace(blocks, ranges1, ranges2)
    /\ cropPc' = "done"
    /\ UNCHANGED <<blocks, ranges1, ranges2, strand1, strand2>>
    /\ FrameBut("crop")

InitCrop == CropInit /\ IdleBut("crop")
NextCrop == CropBlocks
SpecCrop == InitCrop /\ [][NextCrop]_vars

\* -------------------------------------------------------- claims on crop
\* the forward-strand coordinate of position p of the alignment's axis
Fwd1(p) == IF strand1 = "-" THEN -(p + 1) ELSE p
Fwd2(p) == IF strand2 = "-" THEN -(p + 1) ELSE p
InRange(p, r) == r[1] <= p /\ p < r[2]
\* block y holds the aligned pair (p1, p2)
HoldsPair(y, p1, p2) == y[1] <= p1 /\ p1 < y[1] + y[3] /\ p2 - p1 = y[2] - y[1]
Disjoint(lo1, n1, lo2, n2) == lo1 + n1 <= lo2 \/ lo2 + n2 <= lo1

\* C4: every yielded block is a sub-run of one input block on the same
\* diagonal and lies, in forward-strand coordinates, wholly inside one
\* requested axis-1 range and one requested axis-2 range; and every aligned
\* pair of an input block inside some requested range pair is in a yielded block.
C4_CropExact ==
    cropPc = "done" =>
        /\ \A i \in DOMAIN cropTrace :
              LET y == cropTrace[i].blk
                  x == blocks[cropTrace[i].src]
                  r1 == ranges1[cropTrace[i].r1]
                  r2 == ranges2[cropTrace[i].r2]
              IN  /\ bList[i] = y
                  /\ y[2] - y[1] = x[2] - x[1]
                  /\ x[1] <= y[1]
                  /\ y[1] + y[3] <= x[1] + x[3]
                  /\ \A k \in 0..(y[3] - 1) :
                        /\ InRange(Fwd1(y[1] + k), r1)
                        /\ InRange(Fwd2(y[2] + k), r2)
        /\ Len(bList) = Len(cropTrace)
        /\ \A k \in DOMAIN blocks : \A j \in 0..(blocks[k][3] - 1) :
              LET p1 == blocks[k][1] + j
                  p2 == blocks[k][2] + j
              IN  (\E i1 \in DOMAIN ranges1, i2 \in DOMAIN ranges2 :
                      InRange(Fwd1(p1), ranges1[i1]) /\ InRange(Fwd2(p2), ranges2[i2]))
                  => \E i \in DOMAIN bList : HoldsPair(bList[i], p1, p2)

\* C4 witness: a reverse-strand alignment against two requested ranges on
\* axis 1, with an input block cut short by a range boundary and another
\* aligned pair that lies outside every range pair
C4_Witness ==
    /\ cropPc = "done"
    /\ strand1 = "-"
    /\ Len(ranges1) = 2
    /\ Len(bList) >= 2
    /\ \E i \in DOMAIN cropTrace :
          cropTrace[i].blk[3] < blocks[cropTrace[i].src][3]
    /\ \E k \in DOMAIN blocks : \E j \in 0..(blocks[k][3] - 1) :
          \A i \in DOMAIN bList :
              ~HoldsPair(bList[i], blocks[k][1] + j, blocks[k][2] + j)

\* C5: every yielded block has size > 0, also when an input block has size 0
\* or only touches a range boundary; and the blocks yielded for one range
\* pair do not overlap each other on either axis.
C5_CropSizes ==
    cropPc = "done" =>
        /\ \A i \in DOMAIN bList : bList[i][3] > 0
        /\ \A i, j \in DOMAIN cropTrace :
              (i # j /\ cropTrace[i].r1 = cropTrace[j].r1
                     /\ cropTrace[i].r2 = cropTrace[j].r2) =>
                  /\ Disjoint(bList[i][1], bList[i][3], bList[j][1], bList[j][3])
                  /\ Disjoint(bList[i][2], bList[i][3], bList[j][2], bList[j][3])

\* C5 witness: the input has a block of size 0 inside the requested range and
\* a block with a position next to the range boundary; one block is yielded
C5_Witness ==
    /\ cropPc = "done"
    /\ Len(bList) = 1
    /\ \E k \in DOMAIN blocks :
          /\ blocks[k][3] = 0
          /\ \E i1 \in DOMAIN ranges1 : InRange(Fwd1(blocks[k][1]), ranges1[i1])
    /\ \E k \in DOMAIN blocks :
          /\ blocks[k][3] > 0
          /\ \E i1 \in DOMAIN ranges1 :
                Fwd1(blocks[k][1]) = ranges1[i1][2] \/ Fwd1(blocks[k][1]) + 1 = ranges1[i1][1]

\* ================================================================== merge
RECURSIVE InsertPair(_, _)
\* insert pair x into a sorted list of pairs, after the entries equal to it
InsertPair(x, rs) ==
    IF rs = <<>> THEN <<x>>
    ELSE IF PairLeq(Head(rs), x) THEN <<Head(rs)>> \o InsertPair(x, Tail(rs))
    ELSE <<x>> \o rs

RECURSIVE SortPairs(_)
\* v.sort() / sorted(v) for a list of pairs of integers
SortPairs(rs) ==
    IF rs = <<>> THEN <<>>
    ELSE InsertPair(rs[Len(rs)], SortPairs(SubSeq(rs, 1, Len(rs) - 1)))

RECURSIVE MergedRangesNoTouchFrom(_, _, _, _)
MergedRangesNoTouchFrom(rs, i, oldBeg, maxEnd) ==
    IF i > Len(rs) THEN << <<oldBeg, maxEnd>> >>
    ELSE IF rs[i][1] >= maxEnd
         THEN << <<oldBeg, maxEnd>> >> \o MergedRangesNoTouchFrom(rs, i + 1, rs[i][1], rs[i][2])
    ELSE IF rs[i][2] > maxEnd
         THEN MergedRangesNoTouchFrom(rs, i + 1, oldBeg, rs[i][2])
    ELSE MergedRangesNoTouchFrom(rs, i + 1, oldBeg, maxEnd)

RECURSIVE MergedRangesFrom(_, _, _, _)
\* mergedRanges, lines 318-325: the loop from item i on, and the final yield
MergedRangesFrom(rs, i, oldBeg, maxEnd) ==
    IF i > Len(rs) THEN << <<oldBeg, maxEnd>> >>
    ELSE IF rs[i][1] > maxEnd
         THEN << <<oldBeg, maxEnd>> >> \o MergedRangesFrom(rs, i + 1, rs[i][1], rs[i][2])
    ELSE IF rs[i][2] > maxEnd
         THEN MergedRangesFrom(rs, i + 1, oldBeg, rs[i][2])
    ELSE MergedRangesFrom(rs, i + 1, oldBeg, maxEnd)

MergedRangesNoTouch(rs) == MergedRangesNoTouchFrom(rs, 1, rs[1][1], rs[1][2])

\* mergedRanges, lines 316-325
mergedRanges(rs) == MergedRangesFrom(rs, 1, rs[1][1], rs[1][2])

\* mergedRangesPerSeq, lines 329-330, for the list v of one sequence
MergeOf(v) == mergedRanges(SortPairs(v))

\* the intervals updateSeqs appended for one sequence, in input order
MergeInit ==
    /\ coverList \in SeqsOf(ValidRanges(MergeLen), 1, MaxCover)
    /\ mergedOnce = <<>>
    /\ mergedTwice = <<>>
    /\ mergePc = "raw"

\* lastDotplot, line 963: coverDict = dict(mergedRangesPerSeq(coverDict))
MergeCoverage ==
    /\ mergePc = "raw"
    /\ mergedOnce' = MergeOf(coverList)
    /\ mergePc' = "merged"
    /\ UNCHANGED <<coverList, mergedTwice>>
    /\ FrameBut("merge")

\* the same merge applied to its own result
MergeAgain ==
    /\ mergePc = "merged"
    /\ mergedTwice' = MergeOf(mergedOnce)
    /\ mergePc' = "twice"
    /\ UNCHANGED <<coverList, mergedOnce>>
    /\ FrameBut("merge")

InitMerge == MergeInit /\ IdleBut("merge")
NextMerge == MergeCoverage \/ MergeAgain
SpecMerge == InitMerge /\ [][NextMerge]_vars

\* ------------------------------------------------------- claims on merge
\* the positions covered by a list of (begin, end) intervals
Covered(rs) == UNION {rs[i][1]..(rs[i][2] - 1) : i \in DOMAIN rs}
TotalLength(rs) == SumSeq([i \in DOMAIN rs |-> rs[i][2] - rs[i][1]])

\* C6: sort followed by mergedRanges gives the minimal disjoint cover:
\* non-empty intervals in increasing order, each begin strictly greater
\* than the previous end, covering exactly the positions of the input; so
\* merging again changes nothing and the total length does not grow.
C6_MergeMinimalCover ==
    /\ mergePc \in {"merged", "twice"} =>
          /\ Len(mergedOnce) >= 1
          /\ \A i \in DOMAIN mergedOnce : mergedOnce[i][1] < mergedOnce[i][2]
          /\ \A i \in 1..(Len(mergedOnce) - 1) :
                mergedOnce[i + 1][1] > mergedOnce[i][2]
          /\ Covered(mergedOnce) = Covered(coverList)
          /\ TotalLength(mergedOnce) <= TotalLength(coverList)
          /\ TotalLength(mergedOnce) = Cardinality(Covered(coverList))
    /\ mergePc = "twice" => mergedTwice = mergedOnce

\* C6 witness: an unsorted input of three intervals, two of them adjacent
\* (one ends where the other begins), was merged into two intervals, twice
C6_Witness ==
    /\ mergePc = "twice"
    /\ Len(coverList) = 3
    /\ Len(mergedOnce) = 2
    /\ coverList # SortPairs(coverList)
    /\ \E i, j \in DOMAIN coverList : i # j /\ coverList[i][2] = coverList[j][1]

\* =================================================================== trim
\* twoValuesFromOption, lines 311-314: "a,b" gives (a, b), "a" gives (a, a)
twoValuesFromOption(text) ==
    IF Len(text) > 1 THEN <<text[1], text[2]>> ELSE <<text[1], text[1]>>

\* the fractions a gap option is drawn from, as (numerator, denominator)
GapFracs == {<<0, 1>>, <<3, 2>>}

\* the tests of trimmed with >= in place of >
GapReaches(gap, frac, minAligned, pad) ==
    /\ gap * frac[2] >= frac[1] * minAligned
    /\ gap >= pad

\* trimmed, lines 337-338 with the tests of lines 343, 348, 351:
\* gap > max(float(frac) * minAligned, pad * 1.0), in exact arithmetic
GapExceeds(gap, frac, minAligned, pad) ==
    /\ gap * frac[2] > frac[1] * minAligned
    /\ gap > pad

\* trimmed, line 342: the covered intervals that overlap the range
OverlappingBlocks(seqBlocks, rangeBeg, rangeEnd) ==
    SelectSeq(seqBlocks, LAMBDA i : i[1] < rangeEnd /\ i[2] > rangeBeg)

RECURSIVE TrimMidFrom(_, _, _, _, _, _, _)
\* trimmed, lines 345-350: the loop over the covered intervals from item j
\* on; the list of ranges yielded, followed by the rangeBeg left at the end
TrimMidFrom(seqName, blks, j, rangeBeg, midFrac, minAligned, pad) ==
    IF j > Len(blks) THEN <<rangeBeg>>
    ELSE IF j > 1 /\ GapExceeds(blks[j][1] - blks[j - 1][2], midFrac, minAligned, pad * 2)
         THEN << <<seqName, rangeBeg, blks[j - 1][2] + pad>> >>
              \o TrimMidFrom(seqName, blks, j + 1, blks[j][1] - pad, midFrac, minAligned, pad)
    ELSE TrimMidFrom(seqName, blks, j + 1, rangeBeg, midFrac, minAligned, pad)

TrimmedRangeCutInto(r, seqBlocks, minAligned, fracs, padEnd, padMid) ==
    LET blks == OverlappingBlocks(seqBlocks, r[2], r[3])
    IN  IF blks = <<>> THEN "IndexError"
        ELSE
        LET rangeBeg1 == IF GapExceeds(blks[1][1] - r[2], fracs[1], minAligned, padEnd)
                         THEN blks[1][1] + padEnd ELSE r[2]
            mid == TrimMidFrom(r[1], blks, 1, rangeBeg1, fracs[2], minAligned, padMid)
            rangeBeg2 == mid[Len(mid)]
            rangeEnd == IF GapExceeds(r[3] - blks[Len(blks)][2], fracs[1], minAligned, padEnd)
                        THEN blks[Len(blks)][2] - padEnd ELSE r[3]
        IN  SubSeq(mid, 1, Len(mid) - 1) \o << <<r[1], rangeBeg2, rangeEnd>> >>

\* trimmed, lines 341-353: what is yielded for one input range r
TrimmedRange(r, seqBlocks, minAligned, fracs, padEnd, padMid) ==
    LET blks == OverlappingBlocks(seqBlocks, r[2], r[3])
    IN  IF blks = <<>> THEN "IndexError"
        ELSE
        LET rangeBeg1 == IF GapExceeds(blks[1][1] - r[2], fracs[1], minAligned, padEnd)
                         THEN blks[1][1] - padEnd ELSE r[2]
            mid == TrimMidFrom(r[1], blks, 1, rangeBeg1, fracs[2], minAligned, padMid)
            rangeBeg2 == mid[Len(mid)]
            rangeEnd == IF GapExceeds(r[3] - blks[Len(blks)][2], fracs[1], minAligned, padEnd)
                        THEN blks[Len(blks)][2] + padEnd ELSE r[3]
        IN  SubSeq(mid, 1, Len(mid) - 1) \o << <<r[1], rangeBeg2, rangeEnd>> >>

\* trimmed, lines 335-353: list(trimmed(...)); blocks[0] of an empty list
\* raises IndexError
trimmed(ranges, cover, minAligned, gapFrac, padEnd, padMid) ==
    LET fracs == twoValuesFromOption(gapFrac)
        per == [i \in DOMAIN ranges |->
                   TrimmedRange(ranges[i], cover[ranges[i][1]], minAligned,
                                fracs, padEnd, padMid)]
    IN  IF \E i \in DOMAIN per : per[i] = "IndexError" THEN "IndexError"
        ELSE Flatten(per)

\* every merged coverage list over 0..TrimLen
MergedCoverages == {MergeOf(v) : v \in SeqsOf(ValidRanges(TrimLen), 1, MaxCover)}

\* lastDotplot, lines 963-970: one input range of a sequence whose merged
\* coverage has an interval overlapping it
TrimInit ==
    /\ \E c \in MergedCoverages : coverDict = [n \in {"s"} |-> c]
    /\ \E r \in ValidRanges(TrimLen) :
          /\ OverlappingBlocks(coverDict["s"], r[1], r[2]) # <<>>
          /\ seqRanges = << <<"s", r[1], r[2]>> >>
    /\ minAlignedBases \in 1..MaxAligned
    /\ maxGapFrac \in SeqsOf(GapFracs, 1, 2)
    /\ endPad \in 0..MaxPad
    /\ midPad \in 0..MaxPad
    /\ cutRanges = <<>>
    /\ trimPc = "start"

\* lastDotplot, lines 967-968: cutRanges = list(trimmed(...))
Trim ==
    /\ trimPc = "start"
    /\ cutRanges' = trimmed(seqRanges, coverDict, minAlignedBases, maxGapFrac,
                            endPad, midPad)
    /\ trimPc' = "done"
    /\ UNCHANGED <<seqRanges, coverDict, minAlignedBases, maxGapFrac, endPad, midPad>>
    /\ FrameBut("trim")

InitTrim == TrimInit /\ IdleBut("trim")
NextTrim == Trim
SpecTrim == InitTrim /\ [][NextTrim]_vars

\* -------------------------------------------------------- claims on trim
\* the covered positions of the (single) sequence inside its input range
CoveredInRange ==
    Covered(coverDict["s"]) \cap (seqRanges[1][2]..(seqRanges[1][3] - 1))
\* the first covered position at or after p, the end of the last one before p
FirstCoveredFrom(p) ==
    CHOOSE c \in CoveredInRange : c >= p /\ \A d \in CoveredInRange : d >= p => c <= d
LastCoveredEndBefore(p) ==
    1 + CHOOSE c \in CoveredInRange : c < p /\ \A d \in CoveredInRange : d < p => d <= c

\* C7: for an input range overlapped by merged coverage and pads, fractions
\* >= 0, the ranges yielded are non-empty, disjoint, increasing and inside
\* the input range; every covered position of the input range is inside a
\* yielded range; a moved outer boundary lies endPad outside, and a boundary
\* made by a split lies midPad outside, the nearest covered position.
C7_TrimKeepsCoverage ==
    trimPc = "done" =>
        LET out == cutRanges
            r == seqRanges[1]
            n == Len(out)
        IN  /\ out # "IndexError"
            /\ n >= 1
            /\ \A i \in 1..n : out[i][1] = r[1] /\ out[i][2] < out[i][3]
            /\ \A i \in 1..(n - 1) : out[i][3] <= out[i + 1][2]
            /\ r[2] <= out[1][2]
            /\ out[n][3] <= r[3]
            /\ \A p \in CoveredInRange : \E i \in 1..n : out[i][2] <= p /\ p < out[i][3]
            /\ out[1][2] # r[2] => FirstCoveredFrom(out[1][2]) = out[1][2] + endPad
            /\ out[n][3] # r[3] => LastCoveredEndBefore(out[n][3]) = out[n][3] - endPad
            /\ \A i \in 1..(n - 1) :
                  /\ LastCoveredEndBefore(out[i][3]) = out[i][3] - midPad
                  /\ FirstCoveredFrom(out[i + 1][2]) = out[i + 1][2] + midPad

\* C7 witness: a range was split at an inner gap with a positive midPad and
\* its begin was moved up to the first covered position
C7_Witness ==
    /\ trimPc = "done"
    /\ Len(cutRanges) >= 2
    /\ midPad > 0
    /\ cutRanges[1][2] > seqRanges[1][2]

\* the threshold max(frac * minAlignedBases, pad), times the denominator of
\* the fraction
ScaledThreshold(frac, pad) ==
    Max2(frac[1] * minAlignedBases, pad * frac[2])

\* the flank or gap is longer than its threshold
OverThreshold(gap, frac, pad) == gap * frac[2] > ScaledThreshold(frac, pad)

\* c_1..c_k: the covered intervals that share a position with the input range
CoveredIntervals ==
    SelectSeq(coverDict[seqRanges[1][1]],
              LAMBDA c : (c[1]..(c[2] - 1))
                            \cap (seqRanges[1][2]..(seqRanges[1][3] - 1)) # {})

\* the indices j of the gaps between c_j and c_j+1 at which the range is
\* split, ascending
SplitGaps ==
    LET c == CoveredIntervals
        midFrac == maxGapFrac[Len(maxGapFrac)]
    IN  SelectSeq([j \in 1..(Len(c) - 1) |-> j],
                  LAMBDA j : OverThreshold(c[j + 1][1] - c[j][2], midFrac, 2 * midPad))

\* C22: for a range overlapped by the covered intervals c_1..c_k, trimmed
\* yields the pieces of this reference: the begin becomes begin(c_1) - endPad
\* iff begin(c_1) - rangeBegin > max(gapFrac_end * minAlignedBases, endPad)
\* and is unchanged otherwise, the end becomes end(c_k) + endPad iff
\* rangeEnd - end(c_k) exceeds the same threshold, and the range is split
\* between c_j and c_j+1 iff their gap > max(gapFrac_mid * minAlignedBases,
\* 2 * midPad), the left piece ending at end(c_j) + midPad and the right one
\* beginning at begin(c_j+1) - midPad; a flank or gap equal to its threshold
\* is not trimmed.
C22_TrimReference ==
    trimPc = "done" =>
        LET r == seqRanges[1]
            c == CoveredIntervals
            k == Len(c)
            endFrac == maxGapFrac[1]
            splits == SplitGaps
            m == Len(splits)
            newBeg == IF OverThreshold(c[1][1] - r[2], endFrac, endPad)
                      THEN c[1][1] - endPad ELSE r[2]
            newEnd == IF OverThreshold(r[3] - c[k][2], endFrac, endPad)
                      THEN c[k][2] + endPad ELSE r[3]
            piece(i) == <<r[1],
                          IF i = 1 THEN newBeg ELSE c[splits[i - 1] + 1][1] - midPad,
                          IF i = m + 1 THEN newEnd ELSE c[splits[i]][2] + midPad>>
        IN  cutRanges = [i \in 1..(m + 1) |-> piece(i)]

\* C22 witness: a positive flank equal to its threshold was left alone, the
\* other flank was trimmed, and the range was split at an inner gap
C22_Witness ==
    /\ trimPc = "done"
    /\ LET r == seqRanges[1]
           c == CoveredIntervals
           frontGap == c[1][1] - r[2]
           backGap == r[3] - c[Len(c)][2]
       IN  /\ Len(c) >= 2
           /\ Len(cutRanges) = 2
           /\ frontGap > 0
           /\ frontGap * maxGapFrac[1][2] = ScaledThreshold(maxGapFrac[1], endPad)
           /\ cutRanges[1][2] = r[2]
           /\ cutRanges[2][3] < r[3]

\* =================================================================== plot
\* The loop of lastDotplot over the groups that readAlignments yields, with
\* the steps of allSortedRanges in place of its call.  In SpecPlot labels
\* are switched off (--fontsize 0) and there are no annotation files, so the
\* four margins are 0; SpecLayout runs the scaling and layout steps of one
\* group with margins.  The cutting of lines 962-991 is modelled by SpecMerge and
\* SpecTrim; here a group carries the number of its alignments and, per
\* axis, the sizes of its sorted ranges.

\* the messages of the RuntimeErrors
EmptyError == "there are no alignments"
StrandsError == "the strand options have circular dependency"
SortError == "the sort options have circular dependency"
FitError == "can't fit the image: too many sequences?"

NoAlignmentsNever(n) == FALSE

\* lastDotplot, line 961: `not alignments`
NoAlignments(n) == n = 0

\* allSortedRanges, line 434
CircularStrands(o1, o2) == o1 = "1" /\ o2 = "1"

CircularSortNever(o1, o2) == FALSE

\* allSortedRanges, line 443
CircularSort(o1, o2) == o1 = "3" /\ o2 = "3"

\* mySortedRanges, as far as its data flow goes: which ranges were ordered,
\* in which mode, and from which order of the opposite axis (read in mode 3
\* only, line 421); otherRanges is <<>> for None
mySortedRanges(name, sortOpt, otherRanges) ==
    [ranges |-> name, mode |-> sortOpt,
     from |-> IF sortOpt = "3" THEN otherRanges ELSE <<>>]

RECURSIVE BpPerPixFrom(_, _, _)
\* get_bp_per_pix, lines 536-539: the while loop from candidate negBpp
BpPerPixFrom(sizes, negLim, negBpp) ==
    IF NegPixelSum(sizes, negBpp) >= negLim
    THEN -negBpp
    ELSE BpPerPixFrom(sizes, negLim, negBpp - 1)

\* get_bp_per_pix as a function: the scale, or 0 when it raises
get_bp_per_pix(sizes, border, maxPix) ==
    LET numOfRanges == Len(sizes)
        maxPixelsInRanges == MaxPixelsInRanges(maxPix, border, numOfRanges)
    IN  IF CantFit(maxPixelsInRanges, numOfRanges)
        THEN 0
        ELSE BpPerPixFrom(sizes, -maxPixelsInRanges,
                          FirstNegBpPerPix(sizes, -maxPixelsInRanges))

RECURSIVE RangePixBegsAbutting(_, _, _)
\* getRangePixBegs with the border added once only, before the first range
RangePixBegsAbutting(rangePixLens, border, pixTot) ==
    IF rangePixLens = <<>>
    THEN <<>>
    ELSE <<pixTot + border>>
         \o RangePixBegsAbutting(Tail(rangePixLens), 0,
                                 pixTot + border + Head(rangePixLens))

RECURSIVE RangePixBegsFrom(_, _, _)
\* getRangePixBegs, lines 545-548: the loop, with pix_tot as it is before a turn
RangePixBegsFrom(rangePixLens, border, pixTot) ==
    IF rangePixLens = <<>>
    THEN <<>>
    ELSE <<pixTot + border>>
         \o RangePixBegsFrom(Tail(rangePixLens), border,
                             pixTot + border + Head(rangePixLens))

\* getRangePixBegs
getRangePixBegs(rangePixLens, border, margin) ==
    RangePixBegsFrom(rangePixLens, border, margin - border)

\* pixelData
pixelData(sizes, bpp, border, margin) ==
    LET rangePixLens == [i \in DOMAIN sizes |-> div_ceil(sizes[i], bpp)]
        rangePixBegs == getRangePixBegs(rangePixLens, border, margin)
    IN  [rangePixBegs |-> rangePixBegs,
         rangePixLens |-> rangePixLens,
         tot_pix |-> rangePixBegs[Len(rangePixBegs)] + rangePixLens[Len(rangePixLens)]]

\* the option texts the model draws: "0", "1", "0:1" for --strands; "1", "3",
\* "1:3" for --sort
StrandOpts == {<<"0">>, <<"1">>, <<"0", "1">>}
SortOpts == {<<"1">>, <<"3">>, <<"1", "3">>}

\* the range sizes of one axis of a group
PlotSizes == SeqsOf(1..PlotMaxSize, 1, PlotMaxRanges)

optVars == <<optStrands1, optStrands2, optSort1, optSort2, optWidth, optHeight>>
sortVars == <<strandInfo, s1, s2, t1, t2, sortLog>>
sizeVars == <<rangeSizes1, rangeSizes2, bpPerPix1, bpPerPix2, bpPerPix>>
gridVars == <<imWidth, imHeight, gridCells>>
runVars == <<count, groupNum, numAlignments, images>>

PlotInit ==
    /\ optStrands1 \in StrandOpts
    /\ optStrands2 \in StrandOpts
    /\ optSort1 \in SortOpts
    /\ optSort2 \in SortOpts
    /\ optWidth \in 1..MaxPlotPixels
    /\ optHeight \in 1..MaxPlotPixels
    /\ count = 1
    /\ groupNum = 0
    /\ numAlignments = 0
    /\ GroupFresh
    /\ images = <<>>
    /\ errorMsg = ""
    /\ plotPc = "next"

\* lines 959-960: the generator yields the next group, or is exhausted (it
\* yields at least once, line 265); the locals of the turn are not assigned yet
ReadGroup ==
    /\ plotPc = "next"
    /\ \/ /\ groupNum < MaxGroups
          /\ groupNum' = groupNum + 1
          /\ numAlignments' \in {0, 1}
          /\ strandInfo' = <<>>
          /\ s1' = Unbound
          /\ s2' = Unbound
          /\ t1' = Unbound
          /\ t2' = Unbound
          /\ sortLog' = <<>>
          /\ rangeSizes1' = <<>>
          /\ rangeSizes2' = <<>>
          /\ bpPerPix1' = 0
          /\ bpPerPix2' = 0
          /\ bpPerPix' = 0
          /\ imWidth' = 0
          /\ imHeight' = 0
          /\ gridCells' = -1
          /\ plotPc' = "check"
          /\ UNCHANGED <<count, images>>
       \/ /\ groupNum >= 1
          /\ plotPc' = "finished"
          /\ UNCHANGED <<runVars, sortVars, sizeVars, gridVars>>
    /\ UNCHANGED <<optVars, errorMsg>>
    /\ FrameBut("plot")

\* line 961
CheckAlignments ==
    /\ plotPc = "check"
    /\ IF NoAlignments(numAlignments)
       THEN /\ errorMsg' = EmptyError
            /\ plotPc' = "error"
       ELSE /\ plotPc' = "cut"
            /\ UNCHANGED errorMsg
    /\ UNCHANGED <<optVars, runVars, sortVars, sizeVars, gridVars>>
    /\ FrameBut("plot")

\* lines 962-991: merging, trimming, --maxseqs, secondary alignments
CutRanges ==
    /\ plotPc = "cut"
    /\ plotPc' = "strands"
    /\ UNCHANGED <<optVars, runVars, sortVars, sizeVars, gridVars, errorMsg>>
    /\ FrameBut("plot")

\* allSortedRanges, lines 432-439
AllSortedStrands ==
    /\ plotPc = "strands"
    /\ LET o1 == twoValuesFromOption(optStrands1)
           o2 == twoValuesFromOption(optStrands2)
       IN  IF CircularStrands(o1[1], o2[1])
           THEN /\ errorMsg' = StrandsError
                /\ plotPc' = "error"
                /\ UNCHANGED strandInfo
           ELSE /\ strandInfo' = <<o1[1], o2[1], o1[2], o2[2]>>
                /\ plotPc' = "sortcheck"
                /\ UNCHANGED errorMsg
    /\ UNCHANGED <<optVars, runVars, s1, s2, t1, t2, sortLog, sizeVars, gridVars>>
    /\ FrameBut("plot")

\* allSortedRanges, lines 441-444
AllSortedCheck ==
    /\ plotPc = "sortcheck"
    /\ LET o1 == twoValuesFromOption(optSort1)
           o2 == twoValuesFromOption(optSort2)
       IN  IF CircularSort(o1[1], o2[1])
           THEN /\ errorMsg' = SortError
                /\ plotPc' = "error"
           ELSE /\ plotPc' = "primary"
                /\ UNCHANGED errorMsg
    /\ UNCHANGED <<optVars, runVars, sortVars, sizeVars, gridVars>>
    /\ FrameBut("plot")

\* allSortedRanges, lines 445-452: the axes not in mode 3 first, then an
\* axis in mode 3 from the order of the other; reading a name that is not
\* bound yet raises UnboundLocalError
AllSortedPrimary ==
    /\ plotPc = "primary"
    /\ LET o1 == twoValuesFromOption(optSort1)[1]
           o2 == twoValuesFromOption(optSort2)[1]
           a1 == IF o1 # "3" THEN mySortedRanges("1", o1, <<>>) ELSE s1
           a2 == IF o2 # "3" THEN mySortedRanges("2", o2, <<>>) ELSE s2
           logA == (IF o1 # "3" THEN <<"1">> ELSE <<>>)
                   \o (IF o2 # "3" THEN <<"2">> ELSE <<>>)
           b1 == IF o1 = "3" THEN mySortedRanges("1", o1, <<a2>>) ELSE a1
           b2 == IF o2 = "3" THEN mySortedRanges("2", o2, <<b1>>) ELSE a2
           logB == logA \o (IF o1 = "3" THEN <<"1">> ELSE <<>>)
                        \o (IF o2 = "3" THEN <<"2">> ELSE <<>>)
       IN  IF o1 = "3" /\ a2 = Unbound
           THEN /\ s1' = a1
                /\ s2' = a2
                /\ sortLog' = sortLog \o logA
                /\ errorMsg' = "UnboundLocalError"
                /\ plotPc' = "error"
           ELSE /\ s1' = b1
                /\ s2' = b2
                /\ sortLog' = sortLog \o logB
                /\ plotPc' = "secondary"
                /\ UNCHANGED errorMsg
    /\ UNCHANGED <<optVars, runVars, strandInfo, t1, t2, sizeVars, gridVars>>
    /\ FrameBut("plot")

\* allSortedRanges, lines 453-455, and lastDotplot up to line 1021
AllSortedSecondary ==
    /\ plotPc = "secondary"
    /\ t1' = mySortedRanges("B1", twoValuesFromOption(optSort1)[2], <<s2>>)
    /\ t2' = mySortedRanges("B2", twoValuesFromOption(optSort2)[2], <<s1>>)
    /\ sortLog' = sortLog \o <<"B1", "B2">>
    /\ plotPc' = "scale1"
    /\ UNCHANGED <<optVars, runVars, strandInfo, s1, s2, sizeVars, gridVars, errorMsg>>
    /\ FrameBut("plot")

CommonScaleMin(a, b) == Min2(a, b)

\* lastDotplot, line 1024
CommonScale(a, b) == Max2(a, b)

\* lines 1003-1004, 1020 and 1022: the sizes of the sorted ranges of axis 1
\* and the scale that fits them into opts.width less the margins
ChooseScale1 ==
    /\ plotPc = "scale1"
    /\ \E sizes \in PlotSizes :
          LET scale == get_bp_per_pix(sizes, BorderPixels, optWidth - lMargin - rMargin)
          IN  /\ rangeSizes1' = sizes
              /\ bpPerPix1' = scale
              /\ IF scale = 0
                 THEN /\ errorMsg' = FitError
                      /\ plotPc' = "error"
                 ELSE /\ plotPc' = "scale2"
                      /\ UNCHANGED errorMsg
    /\ UNCHANGED <<optVars, runVars, sortVars, rangeSizes2, bpPerPix2, bpPerPix, gridVars>>
    /\ FrameBut("plot")

\* lines 1007-1008, 1021 and 1023-1024: the same for axis 2, and the larger
\* of the two scales
ChooseScale2 ==
    /\ plotPc = "scale2"
    /\ \E sizes \in PlotSizes :
          LET scale == get_bp_per_pix(sizes, BorderPixels, optHeight - tMargin - bMargin)
          IN  /\ rangeSizes2' = sizes
              /\ bpPerPix2' = scale
              /\ IF scale = 0
                 THEN /\ errorMsg' = FitError
                      /\ plotPc' = "error"
                      /\ UNCHANGED bpPerPix
                 ELSE /\ bpPerPix' = CommonScale(bpPerPix1, scale)
                      /\ plotPc' = "layout"
                      /\ UNCHANGED errorMsg
    /\ UNCHANGED <<optVars, runVars, sortVars, rangeSizes1, bpPerPix1, gridVars>>
    /\ FrameBut("plot")

\* lines 1027-1037: the pixel layout of both axes
Layout ==
    /\ plotPc = "layout"
    /\ imWidth' = pixelData(rangeSizes1, bpPerPix, BorderPixels, lMargin).tot_pix + rMargin
    /\ imHeight' = pixelData(rangeSizes2, bpPerPix, BorderPixels, tMargin).tot_pix + bMargin
    /\ plotPc' = "pixels"
    /\ UNCHANGED <<optVars, runVars, sortVars, sizeVars, gridCells, errorMsg>>
    /\ FrameBut("plot")

\* lines 1043-1045 with line 590: alignmentPixels allocates the grid
AllocateHits ==
    /\ plotPc = "pixels"
    /\ gridCells' = imWidth * imHeight
    /\ plotPc' = "save"
    /\ UNCHANGED <<optVars, runVars, sortVars, sizeVars, imWidth, imHeight, errorMsg>>
    /\ FrameBut("plot")

\* lines 1047-1108: the image is composed, saved under the current count,
\* and the count goes up
SaveImage ==
    /\ plotPc = "save"
    /\ images' = Append(images, [number |-> count, group |-> groupNum])
    /\ count' = count + 1
    /\ plotPc' = "next"
    /\ UNCHANGED <<optVars, groupNum, numAlignments, sortVars, sizeVars, gridVars, errorMsg>>
    /\ FrameBut("plot")

InitPlot == PlotInit /\ IdleBut("plot")
NextPlot ==
    \/ ReadGroup
    \/ CheckAlignments
    \/ CutRanges
    \/ AllSortedStrands
    \/ AllSortedCheck
    \/ AllSortedPrimary
    \/ AllSortedSecondary
    \/ ChooseScale1
    \/ ChooseScale2
    \/ Layout
    \/ AllocateHits
    \/ SaveImage
SpecPlot == InitPlot /\ [][NextPlot]_vars

\* ----------------------------------------------------------------- layout
\* The scaling and layout steps of the first group, with --sort and
\* --strands at their defaults and with margins: each of the four margins
\* is 0 or LabelMargin pixels.
LabelMargins == {0, 1}

LayoutInit ==
    /\ optStrands1 = <<"0">>
    /\ optStrands2 = <<"0">>
    /\ optSort1 = <<"1">>
    /\ optSort2 = <<"1">>
    /\ optWidth \in 1..(MaxPlotPixels + 2)
    /\ optHeight \in 1..(MaxPlotPixels + 2)
    /\ lMargin \in LabelMargins
    /\ rMargin \in LabelMargins
    /\ tMargin \in LabelMargins
    /\ bMargin \in LabelMargins
    /\ count = 1
    /\ groupNum = 1
    /\ numAlignments = 1
    /\ strandInfo = <<"0", "0", "0", "0">>
    /\ s1 = mySortedRanges("1", "1", <<>>)
    /\ s2 = mySortedRanges("2", "1", <<>>)
    /\ t1 = mySortedRanges("B1", "1", <<s2>>)
    /\ t2 = mySortedRanges("B2", "1", <<s1>>)
    /\ sortLog = <<"1", "2", "B1", "B2">>
    /\ rangeSizes1 = <<>>
    /\ rangeSizes2 = <<>>
    /\ bpPerPix1 = 0
    /\ bpPerPix2 = 0
    /\ bpPerPix = 0
    /\ imWidth = 0
    /\ imHeight = 0
    /\ gridCells = -1
    /\ images = <<>>
    /\ errorMsg = ""
    /\ plotPc = "scale1"

InitLayout == LayoutInit /\ IdleBut("layout")
NextLayout == ChooseScale1 \/ ChooseScale2 \/ Layout
SpecLayout == InitLayout /\ [][NextLayout]_vars

\* ------------------------------------------------------ claims on layout
\* the pixels the ranges of an axis take at scale s, borders included
PixelsAt(sizes, s) ==
    SumSeq([i \in DOMAIN sizes |-> CeilOf(sizes[i], s)])
        + BorderPixels * (Len(sizes) - 1)

\* C12: once the layout of a group is computed, the image width is at most
\* opts.width and the image height at most opts.height, margins and
\* borders included, with the common scale max(bpPerPix1, bpPerPix2) on
\* both axes; the width and height are the margins plus the pixels of the
\* ranges at that scale.
C12_ImageWithinBudget ==
    plotPc = "pixels" =>
        /\ bpPerPix >= bpPerPix1
        /\ bpPerPix >= bpPerPix2
        /\ bpPerPix \in {bpPerPix1, bpPerPix2}
        /\ imWidth = lMargin + PixelsAt(rangeSizes1, bpPerPix) + rMargin
        /\ imHeight = tMargin + PixelsAt(rangeSizes2, bpPerPix) + bMargin
        /\ imWidth <= optWidth
        /\ imHeight <= optHeight

\* C12 witness: axis 1 alone would have fitted at a smaller scale than the
\* common one; it has several ranges and a margin, and at the common scale
\* it takes fewer pixels than the budget
C12_Witness ==
    /\ plotPc = "pixels"
    /\ bpPerPix1 < bpPerPix2
    /\ Len(rangeSizes1) > 1
    /\ lMargin > 0
    /\ bMargin > 0
    /\ imWidth < optWidth

\* -------------------------------------------------------- claims on plot
\* the primary values of the options
PrimarySort1 == twoValuesFromOption(optSort1)[1]
PrimarySort2 == twoValuesFromOption(optSort2)[1]
PrimaryStrands1 == twoValuesFromOption(optStrands1)[1]
PrimaryStrands2 == twoValuesFromOption(optStrands2)[1]
BothSortByAlignment == PrimarySort1 = "3" /\ PrimarySort2 = "3"
BothStrandsByAlignment == PrimaryStrands1 = "1" /\ PrimaryStrands2 = "1"
\* the image of the current group has been written
CurrentImageWritten == \E i \in DOMAIN images : images[i].group = groupNum
\* nothing of the current group is ordered, scaled or allocated
NothingOrdered ==
    /\ s1 = Unbound /\ s2 = Unbound /\ t1 = Unbound /\ t2 = Unbound
    /\ sortLog = <<>>
    /\ bpPerPix1 = 0 /\ bpPerPix2 = 0 /\ bpPerPix = 0
    /\ gridCells = -1
\* the positions of lastDotplot after allSortedRanges has ordered the
\* primary ranges
AfterPrimary == {"secondary", "scale1", "scale2", "layout", "pixels", "save"}
\* position of a name in the log of mySortedRanges calls (0: not there)
LogIndex(name) ==
    IF \E i \in DOMAIN sortLog : sortLog[i] = name
    THEN CHOOSE i \in DOMAIN sortLog : sortLog[i] = name
    ELSE 0

\* C9: with primary sort 3 on both axes or primary strands 1 on both axes,
\* allSortedRanges raises the circular-dependency error while nothing is
\* ordered, no scale is chosen and no grid is allocated (and never gets
\* past its checks); with any other options that error is never raised,
\* and once the primary ranges are ordered both axes have an order, an
\* axis in mode 3 being ordered after the other axis and from its order.
C9_CircularDependency ==
    /\ errorMsg = StrandsError =>
          /\ BothStrandsByAlignment
          /\ strandInfo = <<>>
          /\ NothingOrdered
    /\ errorMsg = SortError =>
          /\ BothSortByAlignment
          /\ NothingOrdered
    /\ (BothSortByAlignment \/ BothStrandsByAlignment) =>
          /\ plotPc \in {"next", "check", "cut", "strands", "sortcheck", "error"}
          /\ plotPc = "sortcheck" => ~BothStrandsByAlignment
          /\ plotPc = "error" => errorMsg \in {EmptyError, StrandsError, SortError}
          /\ NothingOrdered
          /\ images = <<>>
    /\ ~(BothSortByAlignment \/ BothStrandsByAlignment) =>
          /\ errorMsg \notin {StrandsError, SortError}
          /\ (plotPc \in AfterPrimary \/ CurrentImageWritten) =>
                /\ s1 # Unbound
                /\ s2 # Unbound
                /\ LogIndex("1") > 0
                /\ LogIndex("2") > 0
                /\ PrimarySort1 = "3" =>
                      /\ s1.from = <<s2>>
                      /\ LogIndex("2") < LogIndex("1")
                /\ PrimarySort2 = "3" =>
                      /\ s2.from = <<s1>>
                      /\ LogIndex("1") < LogIndex("2")
                /\ PrimarySort1 # "3" => s1.from = <<>>
                /\ PrimarySort2 # "3" => s2.from = <<>>

\* C9 witness: with sort mode 3 on both axes a group with an alignment
\* raised the sort error, after the strand information was computed
C9_Witness ==
    /\ plotPc = "error"
    /\ errorMsg = SortError
    /\ numAlignments > 0
    /\ strandInfo # <<>>

\* the three checks, on the data of the current group
ChecksPass ==
    /\ numAlignments > 0
    /\ ~BothSortByAlignment
    /\ ~BothStrandsByAlignment
    /\ rangeSizes1 # <<>>
    /\ rangeSizes2 # <<>>
    /\ optWidth - BorderPixels * (Len(rangeSizes1) - 1) >= Len(rangeSizes1)
    /\ optHeight - BorderPixels * (Len(rangeSizes2) - 1) >= Len(rangeSizes2)

\* C10: a group without alignments gets no further than the empty-input
\* check, where it fails; a failed group has no image; the image of a group
\* exists only when the group has passed the empty-input, circular-
\* dependency and pixel-budget checks, and writing it is the last step of
\* the group (afterwards lastDotplot is at the top of its loop or done);
\* images are numbered 1, 2, ... in group order.
C10_ImageLast ==
    /\ (groupNum >= 1 /\ numAlignments = 0) => plotPc \in {"check", "error"}
    /\ errorMsg = EmptyError => numAlignments = 0
    /\ (plotPc = "error" /\ numAlignments = 0) => errorMsg = EmptyError
    /\ plotPc = "error" => ~CurrentImageWritten
    /\ CurrentImageWritten =>
          /\ plotPc \in {"next", "finished"}
          /\ ChecksPass
          /\ gridCells >= 1
    /\ \A i \in DOMAIN images : images[i].group = i /\ images[i].number = i
    /\ Len(images) \in {groupNum - 1, groupNum} \/ groupNum = 0
    /\ count = Len(images) + 1

\* C10 witness: the first group was written as image 1 and the second
\* group, without alignments, failed and left no image
C10_Witness ==
    /\ plotPc = "error"
    /\ errorMsg = EmptyError
    /\ groupNum = 2
    /\ Len(images) = 1

\* =================================================================== read
\* readAlignments as the generator that lastDotplot iterates (split=True).
\* A record of alignmentInput is its two sequence names and whether it
\* gets past the three `continue`s of lines 251-256; the record number
\* stands for its cropped blocks and covered ranges.

ReadNames1 == {"x", "y"}
ReadNames2 == {"a", "b"}

StartsNewGroupNever(by, name) == FALSE

\* readAlignments, line 241 (split is True)
StartsNewGroup(by, name) == by # name

\* position of name among the keys of a dict kept as a list of pairs (0: absent)
KeyIndex(dict, name) ==
    IF \E i \in DOMAIN dict : dict[i][1] = name
    THEN CHOOSE i \in DOMAIN dict : dict[i][1] = name
    ELSE 0

\* updateSeqs, lines 220-226: the new coverDict and the new seqRanges
UpdateCover(dict, name, num) ==
    IF KeyIndex(dict, name) > 0
    THEN [dict EXCEPT ![KeyIndex(dict, name)][2] = Append(@, num)]
    ELSE Append(dict, <<name, <<num>>>>)
UpdateRanges(dict, ranges, name) ==
    IF KeyIndex(dict, name) > 0 THEN ranges ELSE Append(ranges, name)

\* the locals of readAlignments as lines 233-237 and 243-247 set them
NoGroup == [alignments |-> <<>>, seqRanges1 |-> <<>>, coverDict1 |-> <<>>,
            seqRanges2 |-> <<>>, coverDict2 |-> <<>>]
ThisGroup == [alignments |-> alignments, seqRanges1 |-> seqRanges1,
              coverDict1 |-> coverDict1, seqRanges2 |-> seqRanges2,
              coverDict2 |-> coverDict2]

\* readAlignments, lines 249-262: the rest of the loop body for record num,
\* starting from the locals g
AfterRecord(g, rec, num) ==
    IF ~rec.keep
    THEN g
    ELSE [alignments |-> Append(g.alignments, <<rec.name1, rec.name2, num>>),
          seqRanges1 |-> UpdateRanges(g.coverDict1, g.seqRanges1, rec.name1),
          coverDict1 |-> UpdateCover(g.coverDict1, rec.name1, num),
          seqRanges2 |-> UpdateRanges(g.coverDict2, g.seqRanges2, rec.name2),
          coverDict2 |-> UpdateCover(g.coverDict2, rec.name2, num)]

ReadInit ==
    /\ inLines \in SeqsOf([name1 : ReadNames1, name2 : ReadNames2, keep : BOOLEAN],
                          0, MaxRecords)
    /\ linePos = 0
    /\ splitBy = ""
    /\ alignments = <<>>
    /\ seqRanges1 = <<>>
    /\ coverDict1 = <<>>
    /\ seqRanges2 = <<>>
    /\ coverDict2 = <<>>
    /\ yielded = <<>>
    /\ imageCount = 1
    /\ imagesWritten = <<>>
    /\ readPc = "loop"

\* the locals of readAlignments become g
SetGroup(g) ==
    /\ alignments' = g.alignments
    /\ seqRanges1' = g.seqRanges1
    /\ coverDict1' = g.coverDict1
    /\ seqRanges2' = g.seqRanges2
    /\ coverDict2' = g.coverDict2

\* readAlignments, lines 238-262 and 264-265: the for loop takes the next
\* record and runs its body up to a yield or to the end of the body; after
\* the last record the generator goes to its final yield
ReadRecord ==
    /\ readPc = "loop"
    /\ IF linePos = Len(inLines)
       THEN /\ readPc' = "last"
            /\ UNCHANGED <<linePos, splitBy, alignments, seqRanges1, coverDict1,
                           seqRanges2, coverDict2>>
       ELSE LET rec == inLines[linePos + 1]
            IN  IF splitBy = ""
                THEN /\ splitBy' = rec.name2
                     /\ SetGroup(AfterRecord(ThisGroup, rec, linePos + 1))
                     /\ linePos' = linePos + 1
                     /\ UNCHANGED readPc
                ELSE IF StartsNewGroup(splitBy, rec.name2)
                THEN /\ readPc' = "yield"
                     /\ UNCHANGED <<linePos, splitBy, alignments, seqRanges1,
                                    coverDict1, seqRanges2, coverDict2>>
                ELSE /\ SetGroup(AfterRecord(ThisGroup, rec, linePos + 1))
                     /\ linePos' = linePos + 1
                     /\ UNCHANGED <<readPc, splitBy>>
    /\ UNCHANGED <<inLines, yielded, imageCount, imagesWritten>>
    /\ FrameBut("read")

\* lastDotplot, lines 960-1108, on the group the generator is suspended
\* with: an empty group raises; otherwise the turn either raises later on
\* or ends by saving the image and counting up.  Then the generator is
\* resumed: after line 242 it runs lines 243-262 for the record that
\* started the new group, after line 265 it is exhausted
PlotGroup ==
    /\ readPc \in {"yield", "last"}
    /\ yielded' = Append(yielded, ThisGroup)
    /\ IF alignments = <<>>
       THEN /\ readPc' = "error"
            /\ UNCHANGED <<imageCount, imagesWritten, linePos, splitBy, alignments,
                           seqRanges1, coverDict1, seqRanges2, coverDict2>>
       ELSE \/ /\ readPc' = "error"
               /\ UNCHANGED <<imageCount, imagesWritten, linePos, splitBy, alignments,
                              seqRanges1, coverDict1, seqRanges2, coverDict2>>
            \/ /\ imagesWritten' = Append(imagesWritten,
                       [number |-> imageCount, group |-> Len(yielded) + 1])
               /\ imageCount' = imageCount + 1
               /\ IF readPc = "last"
                  THEN /\ readPc' = "done"
                       /\ UNCHANGED <<linePos, splitBy, alignments, seqRanges1,
                                      coverDict1, seqRanges2, coverDict2>>
                  ELSE LET rec == inLines[linePos + 1]
                       IN  /\ splitBy' = rec.name2
                           /\ SetGroup(AfterRecord(NoGroup, rec, linePos + 1))
                           /\ linePos' = linePos + 1
                           /\ readPc' = "loop"
    /\ UNCHANGED inLines
    /\ FrameBut("read")

InitRead == ReadInit /\ IdleBut("read")
NextRead == ReadRecord \/ PlotGroup
SpecRead == InitRead /\ [][NextRead]_vars

\* -------------------------------------------------------- claims on read
\* the records that start a maximal run of equal axis-2 names
RunStarts ==
    {i \in DOMAIN inLines : i = 1 \/ inLines[i].name2 # inLines[i - 1].name2}
\* the first record of run k, and the records of run k
RunStart(k) ==
    CHOOSE i \in RunStarts : Cardinality({j \in RunStarts : j <= i}) = k
RunOf(k) ==
    {i \in DOMAIN inLines :
        /\ i >= RunStart(k)
        /\ \A j \in RunStarts : j > RunStart(k) => i < j}
\* the record numbers in a list of alignments, and in a coverage dict
AlnNums(alns) == {alns[i][3] : i \in DOMAIN alns}
CoverNums(dict) == UNION {Range(dict[i][2]) : i \in DOMAIN dict}
\* group k holds the records of run k that pass the filters, in input order,
\* and ranges and coverage of those records only
GroupIsRun(k) ==
    LET g == yielded[k]
        kept == {i \in RunOf(k) : inLines[i].keep}
    IN  /\ AlnNums(g.alignments) = kept
        /\ Len(g.alignments) = Cardinality(kept)
        /\ \A i, j \in DOMAIN g.alignments :
              i < j => g.alignments[i][3] < g.alignments[j][3]
        /\ \A i \in DOMAIN g.alignments :
              LET a == g.alignments[i]
              IN  a[1] = inLines[a[3]].name1 /\ a[2] = inLines[a[3]].name2
        /\ CoverNums(g.coverDict1) = kept
        /\ CoverNums(g.coverDict2) = kept
        /\ Range(g.seqRanges1) = {inLines[i].name1 : i \in kept}
        /\ Range(g.seqRanges2) = {inLines[i].name2 : i \in kept}
\* the groups delivered so far are the first runs, one group per run
GroupsAreRuns ==
    /\ Len(yielded) <= Cardinality(RunStarts)
    /\ \A k \in DOMAIN yielded : GroupIsRun(k)
\* one image per delivered group, numbered 1, 2, ... in group order
OneImagePerGroup ==
    /\ Len(imagesWritten) = Len(yielded)
    /\ \A i \in DOMAIN imagesWritten :
          imagesWritten[i].number = i /\ imagesWritten[i].group = i

\* C11 as stated: for every input the groups delivered are exactly the
\* maximal runs of records with the same axis-2 name, and a run without
\* error writes one image per group, numbered in group order.
C11_GroupsAreRuns ==
    /\ GroupsAreRuns
    /\ readPc = "done" =>
          /\ Len(yielded) = Cardinality(RunStarts)
          /\ OneImagePerGroup

\* C11, amended: the same for every input with at least one record; an
\* input without records delivers one group, which is empty (and fails
\* with "there are no alignments").
C11_GroupsAreRunsNonEmpty ==
    /\ inLines # <<>> => C11_GroupsAreRuns
    /\ inLines = <<>> =>
          /\ Len(yielded) <= 1
          /\ \A k \in DOMAIN yielded : yielded[k] = NoGroup
          /\ readPc # "done"
          /\ imagesWritten = <<>>
          /\ readPc = "error" => Len(yielded) = 1

\* C11 witness: a run without error over three runs of records, the third
\* with the axis-2 name of the first, wrote three images
C11_Witness ==
    /\ readPc = "done"
    /\ Len(yielded) = 3
    /\ Len(inLines) = 3
    /\ inLines[1].name2 = inLines[3].name2
    /\ Len(imagesWritten) = 3

\* ================================================================== maxseqs
\* lastDotplot, lines 972-995: the biggest opts.maxseqs sequences of each
\* axis are kept, then the secondary alignments are read against the kept
\* ranges and both families are handed to allSortedRanges.
MaxSeqs == 2
MaxPrimary == 2
MaxSecondary == 1

FilterNames1 == {"x", "y"}
FilterNames2 == {"a", "b"}
\* a sequence that only the secondary alignments mention
SecondaryOnly1 == "z"
SecondaryOnly2 == "c"

\* the lengths of the ranges one sequence is cut into by trimmed
SeqShapes == {<<1>>, <<2>>, <<1, 1>>}

\* the names at position idx of the pairs, in order of first appearance, as
\* updateSeqs appends a sequence's ranges when it first sees the name
RECURSIVE FirstSeen(_, _)
FirstSeen(alns, idx) ==
    IF alns = <<>> THEN <<>>
    ELSE LET front == FirstSeen(SubSeq(alns, 1, Len(alns) - 1), idx)
             name == alns[Len(alns)][idx]
         IN  IF name \in Range(front) THEN front ELSE Append(front, name)

\* the ranges of one sequence: consecutive pieces of the given lengths,
\* one base apart
RECURSIVE PiecesFrom(_, _, _)
PiecesFrom(name, shape, from) ==
    IF shape = <<>> THEN <<>>
    ELSE <<<<name, from, from + Head(shape)>>>>
         \o PiecesFrom(name, Tail(shape), from + Head(shape) + 1)

RECURSIVE RangesOfNames(_, _)
RangesOfNames(names, shapeOf) ==
    IF names = <<>> THEN <<>>
    ELSE PiecesFrom(Head(names), shapeOf[Head(names)], 0)
         \o RangesOfNames(Tail(names), shapeOf)

SeqNamesOf(rs) == {rs[i][1] : i \in 1..Len(rs)}

\* sequenceSizesAndNames: the summed length of the ranges of a sequence
RECURSIVE SeqSizeOf(_, _)
SeqSizeOf(rs, name) ==
    IF rs = <<>> THEN 0
    ELSE (IF Head(rs)[1] = name THEN Head(rs)[3] - Head(rs)[2] ELSE 0)
         + SeqSizeOf(Tail(rs), name)

\* the text order of the model's one-letter names
NameRank(name) ==
    CASE name = "a" -> 1 [] name = "b" -> 2 [] name = "c" -> 3
      [] name = "x" -> 4 [] name = "y" -> 5 [] name = "z" -> 6

\* (size, name) tuple a sorts after tuple b in sorted(..., reverse=True)
BiggerSeq(rs, na, nb) ==
    \/ SeqSizeOf(rs, na) > SeqSizeOf(rs, nb)
    \/ SeqSizeOf(rs, na) = SeqSizeOf(rs, nb) /\ NameRank(na) > NameRank(nb)

\* biggestSequences keeping everything
biggestSequencesAll(rs, maxNumOfSequences) == SeqNamesOf(rs)

\* biggestSequences: the names of the first maxNumOfSequences entries of
\* the (size, name) list sorted in descending order
biggestSequences(rs, maxNumOfSequences) ==
    {n \in SeqNamesOf(rs) :
        Cardinality({m \in SeqNamesOf(rs) : BiggerSeq(rs, m, n)}) < maxNumOfSequences}

\* remainingSequenceRanges
remainingSequenceRanges(rs, alns, seqIndex) ==
    LET remainingSequences == {alns[i][seqIndex] : i \in 1..Len(alns)}
        Remains(r) == r[1] \in remainingSequences
    IN  SelectSeq(rs, Remains)

FilterInit ==
    /\ optMaxseqs \in 1..MaxSeqs
    /\ alignmentsA \in SeqsOf(FilterNames1 \X FilterNames2, 1, MaxPrimary)
    /\ \E shapeOf \in [FilterNames1 -> SeqShapes] :
           cutRanges1 = RangesOfNames(FirstSeen(alignmentsA, 1), shapeOf)
    /\ \E shapeOf \in [FilterNames2 -> SeqShapes] :
           cutRanges2 = RangesOfNames(FirstSeen(alignmentsA, 2), shapeOf)
    /\ alignmentsB = <<>>
    /\ cutRangesB1 = <<>>
    /\ cutRangesB2 = <<>>
    /\ axisRanges1 = <<>>
    /\ axisRanges2 = <<>>
    /\ filterPc = "filter1"

\* lines 972-975
FilterAxis1 ==
    /\ filterPc = "filter1"
    /\ LET biggestSeqs1 == biggestSequences(cutRanges1, optMaxseqs)
           Big1(r) == r[1] \in biggestSeqs1
           alns == SelectSeq(alignmentsA, Big1)
       IN  /\ cutRanges1' = SelectSeq(cutRanges1, Big1)
           /\ alignmentsA' = alns
           /\ cutRanges2' = remainingSequenceRanges(cutRanges2, alns, 2)
    /\ filterPc' = "filter2"
    /\ UNCHANGED <<optMaxseqs, alignmentsB, cutRangesB1, cutRangesB2,
                   axisRanges1, axisRanges2>>
    /\ FrameBut("filter")

\* lines 977-980
FilterAxis2 ==
    /\ filterPc = "filter2"
    /\ LET biggestSeqs2 == biggestSequences(cutRanges2, optMaxseqs)
           Big2(r) == r[1] \in biggestSeqs2
           AlnBig2(a) == a[2] \in biggestSeqs2
           alns == SelectSeq(alignmentsA, AlnBig2)
       IN  /\ cutRanges2' = SelectSeq(cutRanges2, Big2)
           /\ alignmentsA' = alns
           /\ cutRanges1' = remainingSequenceRanges(cutRanges1, alns, 1)
    /\ filterPc' = "secondary"
    /\ UNCHANGED <<optMaxseqs, alignmentsB, cutRangesB1, cutRangesB2,
                   axisRanges1, axisRanges2>>
    /\ FrameBut("filter")

\* the records of the secondary alignment file: the two names, the length
\* of each sequence, and whether croppedBlocks leaves a block of the record
SecondaryRecords ==
    [name1 : FilterNames1 \cup {SecondaryOnly1},
     name2 : FilterNames2 \cup {SecondaryOnly2},
     cropped : BOOLEAN]

\* readSecondaryAlignments, from the records on: the alignments it keeps
RECURSIVE SecondaryAlignments(_, _, _)
SecondaryAlignments(recs, cropDict1, cropDict2) ==
    IF recs = <<>> THEN <<>>
    ELSE LET rec == Head(recs)
             more == SecondaryAlignments(Tail(recs), cropDict1, cropDict2)
         IN  IF rec.name1 \notin cropDict1 /\ rec.name2 \notin cropDict2 THEN more
             ELSE IF ~rec.cropped THEN more
             ELSE <<<<rec.name1, rec.name2>>>> \o more

\* readSecondaryAlignments with trimmed: a sequence outside the crop
\* dictionary is registered with the range (0, seqLen) when its first kept
\* alignment is read, and trimmed yields at least one range for it
SecondaryRanges(alns, cropDict, idx) ==
    LET NotCropped(n) == n \notin cropDict
        names == SelectSeq(FirstSeen(alns, idx), NotCropped)
    IN  [i \in 1..Len(names) |-> <<names[i], 0, 1>>]

\* lines 983-991
ReadSecondary ==
    /\ filterPc = "secondary"
    /\ \E recs \in SeqsOf(SecondaryRecords, 0, MaxSecondary) :
           LET cropDict1 == SeqNamesOf(cutRanges1)
               cropDict2 == SeqNamesOf(cutRanges2)
               alns == SecondaryAlignments(recs, cropDict1, cropDict2)
           IN  /\ alignmentsB' = alns
               /\ cutRangesB1' = SecondaryRanges(alns, cropDict1, 1)
               /\ cutRangesB2' = SecondaryRanges(alns, cropDict2, 2)
    /\ filterPc' = "sort"
    /\ UNCHANGED <<optMaxseqs, alignmentsA, cutRanges1, cutRanges2,
                   axisRanges1, axisRanges2>>
    /\ FrameBut("filter")

\* lines 994-995 with allSortedRanges line 455: each axis is laid out from
\* the primary ranges followed by the secondary ranges (the sorting inside
\* each family permutes it)
SortAxes ==
    /\ filterPc = "sort"
    /\ axisRanges1' = cutRanges1 \o cutRangesB1
    /\ axisRanges2' = cutRanges2 \o cutRangesB2
    /\ filterPc' = "sorted"
    /\ UNCHANGED <<optMaxseqs, alignmentsA, cutRanges1, cutRanges2,
                   alignmentsB, cutRangesB1, cutRangesB2>>
    /\ FrameBut("filter")

InitFilter == FilterInit /\ IdleBut("filter")

NextFilter == FilterAxis1 \/ FilterAxis2 \/ ReadSecondary \/ SortAxes

SpecFilter == InitFilter /\ [][NextFilter]_vars

\* ------------------------------------------------------ claims on maxseqs
\* after the filter every remaining primary alignment has both sequences
\* among the kept ranges, and every kept range has a remaining alignment
PrimaryConsistent ==
    /\ \A i \in 1..Len(alignmentsA) :
           /\ alignmentsA[i][1] \in SeqNamesOf(cutRanges1)
           /\ alignmentsA[i][2] \in SeqNamesOf(cutRanges2)
    /\ SeqNamesOf(cutRanges1) = {alignmentsA[i][1] : i \in 1..Len(alignmentsA)}
    /\ SeqNamesOf(cutRanges2) = {alignmentsA[i][2] : i \in 1..Len(alignmentsA)}

PrimaryWithinMax ==
    /\ Cardinality(SeqNamesOf(cutRanges1)) <= optMaxseqs
    /\ Cardinality(SeqNamesOf(cutRanges2)) <= optMaxseqs

\* C13: in every group that reaches the layout, each axis carries at most
\* maxseqs distinct sequences, primary and secondary ones counted together,
\* and after the filter the primary alignments and the kept ranges name
\* the same sequences.
C13_AtMostMaxseqs ==
    /\ filterPc \in {"secondary", "sort", "sorted"} => PrimaryConsistent
    /\ filterPc = "sorted" =>
           /\ Cardinality(SeqNamesOf(axisRanges1)) <= optMaxseqs
           /\ Cardinality(SeqNamesOf(axisRanges2)) <= optMaxseqs

\* what the filter does ensure: the bound for the primary sequences alone
PrimaryAtMostMaxseqs ==
    filterPc \in {"secondary", "sort", "sorted"} =>
        PrimaryConsistent /\ PrimaryWithinMax

\* =================================================================== ingest
\* readAlignments for records of one sequence pair (seqName1 "x" of length
\* IngestLen1, seqName2 "a" of length IngestLen2) under a list of --seq1
\* requests and no --seq2 request, followed by the cut of lastDotplot.
IngestLen1 == 2
IngestLen2 == 2
MaxRequests == 2
MaxIngest == 2

\* fnmatchcase for the patterns of the model: a literal name or "*"
FnMatch(name, pat) == pat = "*" \/ pat = name

\* seqRequestFromText: (pattern, beg, end); a request without coordinates
\* has end = sys.maxsize, here any end beyond the sequence
SeqRequests(len) == {"x", "q"} \X (0..len) \X (0..(len + 1))

\* rangesFromSeqName, lines 207-214
rangesFromSeqName(requests, name, seqLen) ==
    IF requests # <<>>
    THEN LET matching == SelectSeq(requests, LAMBDA q : FnMatch(name, q[1]))
         IN  [i \in DOMAIN matching |->
                 <<Max2(matching[i][2], 0), Min2(matching[i][3], seqLen)>>]
    ELSE << <<0, seqLen>> >>

\* updateSeqs, lines 216-226, for forward-strand covered ranges: the new
\* seqRanges list
UpdateSeqRanges(cover, rangesSoFar, seqName, ranges) ==
    IF cover # <<>> THEN rangesSoFar
    ELSE rangesSoFar \o [i \in DOMAIN ranges |-> <<seqName, ranges[i][1], ranges[i][2]>>]

IngestInit ==
    /\ seqRequests1 \in SeqsOf(SeqRequests(IngestLen1), 0, MaxRequests)
    /\ ingestPos = 0
    /\ ingestKept = 0
    /\ ingestRanges1 = <<>>
    /\ ingestCover1 = <<>>
    /\ ingestCover2 = <<>>
    /\ ingestCut1 = <<>>
    /\ ingestPc = "read"

\* the blocks of a record: a forward-strand alignment of the two sequences
IngestAlignments == Alignments(IngestLen1, IngestLen2, 1)

\* readAlignments, lines 249-262: one turn of the for loop
IngestRecord ==
    /\ ingestPc = "read"
    /\ ingestPos < MaxIngest
    /\ ingestPos' = ingestPos + 1
    /\ \E recBlocks \in IngestAlignments :
          LET rs1 == SortPairs(rangesFromSeqName(seqRequests1, "x", IngestLen1))
              rs2 == SortPairs(rangesFromSeqName(<<>>, "a", IngestLen2))
          IN  \E cropped \in {croppedBlocks(recBlocks, rs1, rs2)} :
                LET last == cropped[Len(cropped)]
                IN  IF rs1 = <<>> \/ rs2 = <<>> \/ cropped = <<>>
                    THEN UNCHANGED <<ingestKept, ingestRanges1, ingestCover1, ingestCover2>>
                    ELSE /\ ingestKept' = ingestKept + 1
                         /\ ingestRanges1' =
                                UpdateSeqRanges(ingestCover1, ingestRanges1, "x", rs1)
                         /\ ingestCover1' = Append(ingestCover1,
                                                   <<cropped[1][1], last[1] + last[3]>>)
                         /\ ingestCover2' = Append(ingestCover2,
                                                   <<cropped[1][2], last[2] + last[3]>>)
    /\ UNCHANGED <<seqRequests1, ingestCut1, ingestPc>>
    /\ FrameBut("ingest")

\* readAlignments, lines 264-265, and lastDotplot, line 961
IngestEnd ==
    /\ ingestPc = "read"
    /\ ingestPos >= 1
    /\ ingestPc' = IF ingestKept = 0 THEN "error" ELSE "cut"
    /\ UNCHANGED <<seqRequests1, ingestPos, ingestKept, ingestRanges1,
                   ingestCover1, ingestCover2, ingestCut1>>
    /\ FrameBut("ingest")

\* lastDotplot, lines 963-968, with the default --max-gap1 "1,4" and
\* pad = int(0.04 * minAlignedBases) = 0 for the lengths of the model
IngestCut ==
    /\ ingestPc = "cut"
    /\ LET merged1 == MergeOf(ingestCover1)
           merged2 == MergeOf(ingestCover2)
           minAligned == Min2(TotalLength(merged1), TotalLength(merged2))
           cut == trimmed(ingestRanges1, [n \in {"x"} |-> merged1], minAligned,
                          << <<1, 1>>, <<4, 1>> >>, 0, 0)
       IN  IF cut = "IndexError"
           THEN ingestPc' = "IndexError" /\ UNCHANGED ingestCut1
           ELSE ingestPc' = "done" /\ ingestCut1' = cut
    /\ UNCHANGED <<seqRequests1, ingestPos, ingestKept, ingestRanges1,
                   ingestCover1, ingestCover2>>
    /\ FrameBut("ingest")

InitIngest == IngestInit /\ IdleBut("ingest")

NextIngest == IngestRecord \/ IngestEnd \/ IngestCut

SpecIngest == InitIngest /\ [][NextIngest]_vars

\* ------------------------------------------------------ claims on ingest
LiveRange(r) == 0 <= r[2] /\ r[2] < r[3]

\* C14: every range registered by updateSeqs and every range produced by
\* trimmed satisfies 0 <= rangeBegin < rangeEnd, whatever the list of
\* requests is.
C14_LiveRanges ==
    /\ \A i \in DOMAIN ingestRanges1 : LiveRange(ingestRanges1[i])
    /\ \A i \in DOMAIN ingestCut1 : LiveRange(ingestCut1[i])

\* what does hold: a sequence matched by one request only has live ranges
SingleRequestLive ==
    Len(SelectSeq(seqRequests1, LAMBDA q : FnMatch("x", q[1]))) <= 1 =>
        C14_LiveRanges

\* ==================================================================== place
\* lastDotplot, lines 1027-1045: the ranges of one sequence per axis
\* (seqName1 "x" of length PlaceLen1, seqName2 "a" of length PlaceLen2) get
\* pixel spans and origins, and one alignment is painted by alignmentPixels.
PlaceLen1 == 3
PlaceLen2 == 2
MaxPlaceRanges == 2
MaxPlaceScale == 2

\* lists of requested ranges of one sequence, as sorted() leaves them:
\* increasing and disjoint
RangeLists(len) ==
    {rs \in SeqsOf(ValidRanges(len), 1, MaxPlaceRanges) :
        \A i \in 1..(Len(rs) - 1) : rs[i][2] <= rs[i + 1][1]}

Reversed(s) == [i \in DOMAIN s |-> s[Len(s) + 1 - i]]

\* rangesWithStrandInfo, line 369, then mySortedRanges, lines 412-416 and
\* 428, for one sequence: the ranges with the strand number of the
\* sequence, in reverse order when the sequence is shown reversed
OrientedRanges(name, rs, strandNum) ==
    LET g == [i \in DOMAIN rs |-> <<name, rs[i][1], rs[i][2], strandNum>>]
    IN  IF strandNum > 1 THEN Reversed(g) ELSE g

\* rangesWithOrigins, lines 884-887, without the negation of the origin
OriginOfUnsigned(r, pixBeg, pixLen, bpp) ==
    bpp * pixBeg + r[2]

\* rangesWithOrigins, lines 884-887: the origin of one range
OriginOf(r, pixBeg, pixLen, bpp) ==
    IF r[4] > 1 THEN bpp * (pixBeg + pixLen) + r[2]
    ELSE bpp * pixBeg - r[2]

\* rangesWithOrigins, lines 880-888
rangesWithOrigins(sorted, rangePixBegs, rangePixLens, bpp) ==
    [i \in DOMAIN sorted |->
        <<sorted[i][1],
          <<sorted[i][2], sorted[i][3], sorted[i][4] > 1,
            OriginOf(sorted[i], rangePixBegs[i], rangePixLens[i], bpp)>>>>]

\* rangesAndOriginsPerSeq, lines 890-893, for the one sequence of the axis:
\* sorted(i[1] for i in group); the ranges have distinct begins
rangesAndOriginsPerSeq(sorted, rangePixBegs, rangePixLens, bpp) ==
    LET a == rangesWithOrigins(sorted, rangePixBegs, rangePixLens, bpp)
    IN  SortPairs([i \in DOMAIN a |-> a[i][2]])

PixPairs(p) == [i \in DOMAIN p.rangePixBegs |-> <<p.rangePixBegs[i], p.rangePixLens[i]>>]

\* the state before line 1027, for the given lists of ranges of "x" and "a"
PlaceInitWith(lists1, lists2) ==
    /\ \E rs \in lists1, strandNum \in 0..2 :
           sortedRanges1 = OrientedRanges("x", rs, strandNum)
    /\ \E rs \in lists2, strandNum \in 0..2 :
           sortedRanges2 = OrientedRanges("a", rs, strandNum)
    /\ placeScale \in 1..MaxPlaceScale
    /\ placeMargin1 \in LabelMargins
    /\ placeMargin2 \in LabelMargins
    /\ rangePix1 = <<>>
    /\ rangePix2 = <<>>
    /\ rangeDict1 = <<>>
    /\ rangeDict2 = <<>>
    /\ placeWidth = 0
    /\ placeHeight = 0
    /\ placeBlocks = <<>>
    /\ placeWrites = <<>>
    /\ placePc = "layout"

\* lastDotplot, lines 1027-1037
PlaceRanges ==
    /\ placePc = "layout"
    /\ LET rangeSizes1x == [i \in DOMAIN sortedRanges1 |->
                              sortedRanges1[i][3] - sortedRanges1[i][2]]
           rangeSizes2x == [i \in DOMAIN sortedRanges2 |->
                              sortedRanges2[i][3] - sortedRanges2[i][2]]
           p1 == pixelData(rangeSizes1x, placeScale, BorderPixels, placeMargin1)
           p2 == pixelData(rangeSizes2x, placeScale, BorderPixels, placeMargin2)
       IN  /\ rangePix1' = PixPairs(p1)
           /\ rangePix2' = PixPairs(p2)
           /\ placeWidth' = p1.tot_pix
           /\ placeHeight' = p2.tot_pix
           /\ rangeDict1' = rangesAndOriginsPerSeq(sortedRanges1, p1.rangePixBegs,
                                                   p1.rangePixLens, placeScale)
           /\ rangeDict2' = rangesAndOriginsPerSeq(sortedRanges2, p2.rangePixBegs,
                                                   p2.rangePixLens, placeScale)
    /\ placePc' = "draw"
    /\ UNCHANGED <<sortedRanges1, sortedRanges2, placeScale, placeMargin1,
                   placeMargin2, placeBlocks, placeWrites>>
    /\ FrameBut("place")

\* strandAndOrigin, lines 580-586; found is FALSE when the loop ends
\* without a return
strandAndOrigin(ranges, beg, blockSize) ==
    LET isReverseStrand == beg < 0
        fwdBeg == IF isReverseStrand THEN -(beg + blockSize) ELSE beg
        later == {i \in DOMAIN ranges : ranges[i][2] > fwdBeg}
    IN  IF later = {} THEN [found |-> FALSE, rev |-> FALSE, ori |-> 0]
        ELSE LET i == CHOOSE j \in later : \A k \in later : j <= k
             IN  [found |-> TRUE,
                  rev |-> (isReverseStrand # ranges[i][3]),
                  ori |-> ranges[i][4]]

RECURSIVE LineWalk(_, _, _, _, _)
\* drawLineForward / drawLineReverse: the cells (q1, q2) written, in order
LineWalk(forward, bpp, b1, b2, n) ==
    LET q1 == DivmodQ(b1, bpp)
        r1 == DivmodR(b1, bpp)
        q2 == DivmodQ(b2, bpp)
        r2 == DivmodR(b2, bpp)
        next_pix == IF forward THEN NextPixForward(bpp, r1, r2)
                    ELSE NextPixReverse(bpp, r1, r2)
    IN  IF next_pix >= n THEN << <<q1, q2>> >>
        ELSE << <<q1, q2>> >> \o
             LineWalk(forward, bpp, b1 + next_pix,
                      IF forward THEN b2 + next_pix ELSE b2 - next_pix, n - next_pix)

\* alignmentPixels, lines 596-598: the block in the coordinates it is drawn in
FlipBlock(blk, isReverse1, isReverse2) ==
    IF isReverse1 THEN <<-(blk[1] + blk[3]), -(blk[2] + blk[3]), blk[3]>> ELSE blk

\* alignmentPixels, line 599, with the test inverted
SameSenseNever(isReverse1, isReverse2) == isReverse1 # isReverse2

\* alignmentPixels, line 599
SameSense(isReverse1, isReverse2) == isReverse1 = isReverse2

\* alignmentPixels, lines 592-604, for one alignment whose origins were found
AlignmentWrites(blks, so1, so2, bpp) ==
    LET ForBlock(k) ==
            LET blk == FlipBlock(blks[k], so1.rev, so2.rev)
                cells == IF SameSense(so1.rev, so2.rev)
                         THEN LineWalk(TRUE, bpp, so1.ori + blk[1], so2.ori + blk[2], blk[3])
                         ELSE LineWalk(FALSE, bpp, so1.ori + blk[1],
                                       so2.ori - blk[2] - 1, blk[3])
                bit == IF SameSense(so1.rev, so2.rev) THEN 1 ELSE 2
            IN  [j \in DOMAIN cells |-> <<cells[j][1], cells[j][2], bit, k>>]
    IN  Flatten([k \in DOMAIN blks |-> ForBlock(k)])

\* a reverse-strand position p of a sequence of length n is written p - n
PlaceInStrand(blks, str1, str2) ==
    [k \in DOMAIN blks |->
        <<blks[k][1] - (IF str1 = "-" THEN PlaceLen1 ELSE 0),
          blks[k][2] - (IF str2 = "-" THEN PlaceLen2 ELSE 0),
          blks[k][3]>>]

\* readAlignments, lines 257-262 with updateSeqs: the covered range of an axis
CoveredRange(blks, axis) ==
    LET beg == blks[1][axis]
        end == blks[Len(blks)][axis] + blks[Len(blks)][3]
    IN  IF beg < 0 THEN <<-end, -beg>> ELSE <<beg, end>>

\* trimmed, line 342: every range of the axis is overlapped by the covered
\* range, so that blocks[0] exists
AllOverlapped(ranges, cover) ==
    \A i \in DOMAIN ranges : cover[1] < ranges[i][2] /\ cover[2] > ranges[i][1]

\* the alignments of the two sequences, in the coordinates of either strand
PlaceAlignments ==
    {PlaceInStrand(raw, str1, str2) :
        raw \in Alignments(PlaceLen1, PlaceLen2, 1), str1 \in {"+", "-"}, str2 \in {"+", "-"}}

\* readAlignments, lines 251-262, and alignmentPixels: the one alignment of
\* the group is cropped to the ranges of the two sequences and painted
DrawAlignment ==
    /\ placePc = "draw"
    /\ \E aln \in PlaceAlignments :
          LET rs1 == [i \in DOMAIN rangeDict1 |-> <<rangeDict1[i][1], rangeDict1[i][2]>>]
              rs2 == [i \in DOMAIN rangeDict2 |-> <<rangeDict2[i][1], rangeDict2[i][2]>>]
          IN  \E cropped \in {croppedBlocks(aln, rs1, rs2)} :
                LET so1 == strandAndOrigin(rangeDict1, cropped[1][1], cropped[1][3])
                    so2 == strandAndOrigin(rangeDict2, cropped[1][2], cropped[1][3])
                IN  /\ cropped # <<>>
                    /\ AllOverlapped(rangeDict1, CoveredRange(cropped, 1))
                    /\ AllOverlapped(rangeDict2, CoveredRange(cropped, 2))
                    /\ placeBlocks' = cropped
                    /\ IF so1.found /\ so2.found
                       THEN /\ placeWrites' = AlignmentWrites(cropped, so1, so2, placeScale)
                            /\ placePc' = "drawn"
                       ELSE /\ placeWrites' = <<>>
                            /\ placePc' = "TypeError"
    /\ UNCHANGED <<sortedRanges1, sortedRanges2, placeScale, placeMargin1,
                   placeMargin2, rangePix1, rangePix2, rangeDict1, rangeDict2,
                   placeWidth, placeHeight>>
    /\ FrameBut("place")

\* any lists of requested ranges for the two sequences
PlaceInit == PlaceInitWith(RangeLists(PlaceLen1), RangeLists(PlaceLen2))

InitPlace == PlaceInit /\ IdleBut("place")

NextPlace == PlaceRanges \/ DrawAlignment

SpecPlace == InitPlace /\ [][NextPlace]_vars

\* the layout alone, for any lists of requested ranges
NextOrigin == PlaceRanges

SpecOrigin == InitPlace /\ [][NextOrigin]_vars

\* no --seq1 / --seq2 request: rangesFromSeqName yields the whole sequence
SenseInit ==
    PlaceInitWith({<< <<0, PlaceLen1>> >>}, {<< <<0, PlaceLen2>> >>})

InitSense == SenseInit /\ IdleBut("place")

SpecSense == InitSense /\ [][NextPlace]_vars

\* ------------------------------------------------------- claims on place
\* the forward-strand interval of a block on an axis
BlockFwd(blk, axis) ==
    IF blk[axis] < 0 THEN <<-(blk[axis] + blk[3]), -blk[axis]>>
    ELSE <<blk[axis], blk[axis] + blk[3]>>

\* the index in sortedRanges of the range that contains the block
RangeOfBlock(sorted, blk, axis) ==
    CHOOSE i \in DOMAIN sorted :
        sorted[i][2] <= BlockFwd(blk, axis)[1] /\ BlockFwd(blk, axis)[2] <= sorted[i][3]

InSpan(q, span) == span[1] <= q /\ q < span[1] + span[2]

\* C15: every cell written for a block has its column inside the pixel span
\* of the axis-1 range that contains the block and its row inside the span
\* of the axis-2 range that contains it, hence inside the image, also when
\* the blocks of the alignment lie in different ranges of one sequence.
C15_CellsInsideSpans ==
    /\ placePc # "TypeError"
    /\ \A j \in DOMAIN placeWrites :
          LET w == placeWrites[j]
              blk == placeBlocks[w[4]]
          IN  /\ InSpan(w[1], rangePix1[RangeOfBlock(sortedRanges1, blk, 1)])
              /\ InSpan(w[2], rangePix2[RangeOfBlock(sortedRanges2, blk, 2)])
              /\ 0 <= w[1] /\ w[1] < placeWidth
              /\ 0 <= w[2] /\ w[2] < placeHeight

\* the ranges of one sequence the blocks of the alignment lie in
RangesUsed(sorted, axis) ==
    {RangeOfBlock(sorted, placeBlocks[k], axis) : k \in DOMAIN placeBlocks}

\* what does hold: an alignment inside one range per axis is painted inside
\* the spans of those ranges
OneRangeInsideSpans ==
    (Cardinality(RangesUsed(sortedRanges1, 1)) <= 1
        /\ Cardinality(RangesUsed(sortedRanges2, 2)) <= 1) => C15_CellsInsideSpans

\* the sequence of an axis is displayed reversed
ShownReversed(sorted) == sorted[1][4] > 1

\* C19: all blocks of an alignment are painted with the same bit: bit 0
\* (value 1) exactly when (first block's begin1 < 0 XOR axis 1 shown
\* reversed) equals (first block's begin2 < 0 XOR axis 2 shown reversed),
\* bit 1 (value 2) otherwise.
C19_BitBySense ==
    placePc = "drawn" =>
        LET sense1 == (placeBlocks[1][1] < 0) # ShownReversed(sortedRanges1)
            sense2 == (placeBlocks[1][2] < 0) # ShownReversed(sortedRanges2)
            bit == IF sense1 = sense2 THEN 1 ELSE 2
        IN  /\ placeWrites # <<>>
            /\ \A k \in DOMAIN placeBlocks : \E j \in DOMAIN placeWrites :
                   placeWrites[j][4] = k
            /\ \A j \in DOMAIN placeWrites : placeWrites[j][3] = bit

\* C19 witness: an alignment of two blocks, forward on both strands, painted
\* with bit 1 because only axis 2 is shown reversed
C19_Witness ==
    /\ placePc = "drawn"
    /\ Len(placeBlocks) = 2
    /\ placeBlocks[1][1] >= 0
    /\ placeBlocks[1][2] >= 0
    /\ ~ShownReversed(sortedRanges1)
    /\ ShownReversed(sortedRanges2)
    /\ placeWrites[1][3] = 2

\* the pixel a coordinate is drawn at: divmod(origin + coordinate, bpPerPix)
PixelOf(origin, coord) == DivmodQ(origin + coord, placeScale)

\* the entry of rangeDict for the range that begins at beg
DictEntry(dict, beg) == dict[CHOOSE i \in DOMAIN dict : dict[i][1] = beg]

\* C20 for one axis
OriginsPlaceRanges(sorted, dict, pix) ==
    \A i \in DOMAIN sorted :
        LET rangeBeg == sorted[i][2]
            rangeEnd == sorted[i][3]
            pixelBegin == pix[i][1]
            pixelLen == pix[i][2]
            origin == DictEntry(dict, rangeBeg)[4]
            Pix(p) == IF sorted[i][4] > 1 THEN PixelOf(origin, -(p + 1))
                      ELSE PixelOf(origin, p)
        IN  /\ pixelLen * placeScale >= rangeEnd - rangeBeg
            /\ (pixelLen - 1) * placeScale < rangeEnd - rangeBeg
            /\ origin = IF sorted[i][4] > 1
                        THEN placeScale * (pixelBegin + pixelLen) + rangeBeg
                        ELSE placeScale * pixelBegin - rangeBeg
            /\ \A p \in rangeBeg..(rangeEnd - 1) : InSpan(Pix(p), pix[i])
            /\ \A p \in rangeBeg..(rangeEnd - 2) :
                   IF sorted[i][4] > 1
                   THEN Pix(p + 1) <= Pix(p) /\ Pix(p + 1) >= Pix(p) - 1
                   ELSE Pix(p + 1) >= Pix(p) /\ Pix(p + 1) <= Pix(p) + 1
            /\ Pix(rangeBeg) = IF sorted[i][4] > 1 THEN pixelBegin + pixelLen - 1
                               ELSE pixelBegin
            /\ Pix(rangeEnd - 1) = IF sorted[i][4] > 1 THEN pixelBegin
                                   ELSE pixelBegin + pixelLen - 1

\* C20: a range placed at the span [pixelBegin, pixelBegin + pixelLen) with
\* pixelLen = ceil(size / S) has origin S*pixelBegin - rangeBegin when
\* forward and S*(pixelBegin+pixelLen) + rangeBegin when reversed; every
\* position p of it maps to floor((origin + p)/S), respectively
\* floor((origin - p - 1)/S), inside the span, ascending with p when
\* forward and descending when reversed, from one end of the span to the
\* other.
C20_OriginsPlaceRanges ==
    placePc \in {"draw", "drawn"} =>
        /\ OriginsPlaceRanges(sortedRanges1, rangeDict1, rangePix1)
        /\ OriginsPlaceRanges(sortedRanges2, rangeDict2, rangePix2)

\* C20 witness: a reversed range that does not begin at 0, placed after
\* another range at a scale above 1 and behind a margin
C20_Witness ==
    /\ placePc = "draw"
    /\ placeScale > 1
    /\ placeMargin1 > 0
    /\ Len(sortedRanges1) = 2
    /\ sortedRanges1[2][4] > 1
    /\ sortedRanges1[1][2] > 0
    /\ sortedRanges1[1][3] - sortedRanges1[1][2] > 1

\* ===================================================================== sort
\* mySortedRanges for the sort options "1" (by name) and "2" (by size).  A
\* sequence name is the list of its characters.
MaxNameLen == 2
MaxSizeSeqs == 3

NameChars == {"c", "0", "1", "2"}

\* the characters \d matches, with int() of each
IsDigit(ch) == ch \in {"0", "1", "2"}
DigitValue(ch) == CASE ch = "0" -> 0 [] ch = "1" -> 1 [] ch = "2" -> 2

\* the code point order of the characters
CharRank(ch) == CASE ch = "0" -> 48 [] ch = "1" -> 49 [] ch = "2" -> 50 [] ch = "c" -> 99

RECURSIVE RunLen(_, _)
\* the length of the longest prefix of digits (digits = TRUE) or of other
\* characters (digits = FALSE)
RunLen(text, digits) ==
    IF text = <<>> \/ IsDigit(Head(text)) # digits THEN 0
    ELSE 1 + RunLen(Tail(text), digits)

\* int() reading the first digit only
IntOfFirstDigit(digits) == DigitValue(digits[1])

RECURSIVE IntOf(_)
\* int() of a run of digits
IntOf(digits) ==
    IF digits = <<>> THEN 0
    ELSE 10 * IntOf(SubSeq(digits, 1, Len(digits) - 1)) + DigitValue(digits[Len(digits)])

RECURSIVE natural_sort_key(_)
\* natural_sort_key, lines 371-375: re.split(r'(\d+)', s) with the digit
\* runs (the odd list indices) converted by int
natural_sort_key(name) ==
    LET n == RunLen(name, FALSE)
        rest == SubSeq(name, n + 1, Len(name))
        d == RunLen(rest, TRUE)
    IN  IF rest = <<>> THEN <<SubSeq(name, 1, n)>>
        ELSE <<SubSeq(name, 1, n), IntOf(SubSeq(rest, 1, d))>>
             \o natural_sort_key(SubSeq(rest, d + 1, Len(rest)))

RECURSIVE TextLess(_, _)
\* str < str
TextLess(ta, tb) ==
    IF tb = <<>> THEN FALSE
    ELSE IF ta = <<>> THEN TRUE
    ELSE IF Head(ta) # Head(tb) THEN CharRank(Head(ta)) < CharRank(Head(tb))
    ELSE TextLess(Tail(ta), Tail(tb))

RECURSIVE KeyLessFrom(_, _, _)
\* list < list for two keys of natural_sort_key, from index i on: texts at
\* the odd positions (counted from 1), numbers at the even ones
KeyLessFrom(ka, kb, i) ==
    IF i > Len(kb) THEN FALSE
    ELSE IF i > Len(ka) THEN TRUE
    ELSE IF ka[i] = kb[i] THEN KeyLessFrom(ka, kb, i + 1)
    ELSE IF i % 2 = 1 THEN TextLess(ka[i], kb[i])
    ELSE ka[i] < kb[i]

KeyLess(ka, kb) == KeyLessFrom(ka, kb, 1)

\* nameKey, lines 377-378
nameKey(oneSeqRanges) == natural_sort_key(oneSeqRanges[1][1])

\* the first item of sizeKey with the subtraction the other way round
SizeSumAscending(oneSeqRanges) ==
    SumSeq([i \in DOMAIN oneSeqRanges |-> oneSeqRanges[i][3] - oneSeqRanges[i][2]])

\* sizeKey, line 381, first item: sum(b - e for n, b, e, s in oneSeqRanges)
SizeSum(oneSeqRanges) ==
    SumSeq([i \in DOMAIN oneSeqRanges |-> oneSeqRanges[i][2] - oneSeqRanges[i][3]])

\* key(x) < key(y) for the key function of the sort option
SortKeyLess(opt, x, y) ==
    IF opt = "1" THEN KeyLess(nameKey(x), nameKey(y))
    ELSE \/ SizeSum(x) < SizeSum(y)
         \/ SizeSum(x) = SizeSum(y) /\ KeyLess(nameKey(x), nameKey(y))

RECURSIVE GroupByName(_)
\* itertools.groupby(seqRanges, itemgetter(0)), line 412: runs of ranges
\* with the same name
GroupByName(rs) ==
    IF rs = <<>> THEN <<>>
    ELSE LET front == GroupByName(SubSeq(rs, 1, Len(rs) - 1))
             r == rs[Len(rs)]
         IN  IF front # <<>> /\ front[Len(front)][1][1] = r[1]
             THEN [front EXCEPT ![Len(front)] = Append(@, r)]
             ELSE Append(front, <<r>>)

RECURSIVE InsertByKey(_, _, _)
\* insert x after the items whose key is not greater: the sort is stable
InsertByKey(opt, x, gs) ==
    IF gs = <<>> THEN <<x>>
    ELSE IF SortKeyLess(opt, x, Head(gs)) THEN <<x>> \o gs
    ELSE <<Head(gs)>> \o InsertByKey(opt, x, Tail(gs))

RECURSIVE SortByKey(_, _)
\* g.sort(key=...), lines 418 and 420
SortByKey(opt, gs) ==
    IF gs = <<>> THEN <<>>
    ELSE InsertByKey(opt, gs[Len(gs)], SortByKey(opt, SubSeq(gs, 1, Len(gs) - 1)))

\* mySortedRanges, lines 411-420 and 428, for the sort options "1" and "2"
SortedRangesOf(rs, opt) ==
    LET g == GroupByName(rs)
        flipped == [i \in DOMAIN g |-> IF g[i][1][4] > 1 THEN Reversed(g[i]) ELSE g[i]]
    IN  Flatten(SortByKey(opt, flipped))

\* the names of at most n characters
SortNames == SeqsOf(NameChars, 1, MaxNameLen)

\* the names of the example: chr1, chr2, chr10 (as c1, c2, c10), and chr01
ExampleNames == {<<"c", "1">>, <<"c", "2">>, <<"c", "1", "0">>, <<"c", "0", "1">>}

\* the lists of distinct names drawn from a set, up to a length
DistinctLists(names, maxLen) ==
    {l \in SeqsOf(names, 1, maxLen) : \A i, j \in DOMAIN l : i # j => l[i] # l[j]}

\* the ranges of the named sequences, each sequence cut as its shape says
RECURSIVE RangesWithStrand(_, _)
RangesWithStrand(names, shapeOf) ==
    IF names = <<>> THEN <<>>
    ELSE LET pieces == PiecesFrom(Head(names), shapeOf[Head(names)], 0)
         IN  [i \in DOMAIN pieces |-> <<pieces[i][1], pieces[i][2], pieces[i][3], 0>>]
             \o RangesWithStrand(Tail(names), shapeOf)

\* allSortedRanges, lines 447-450, sort option "1": one or two sequences
\* with any names, or three of the example; every sequence has two ranges
NameSortInit ==
    /\ \E names \in {<<n>> : n \in SortNames}
                     \cup {<<n, m>> : n, m \in SortNames} \cup DistinctLists(ExampleNames, 3) :
          /\ \A i, j \in DOMAIN names : i # j => names[i] # names[j]
          /\ sortRanges = RangesWithStrand(names, [n \in Range(names) |-> <<1, 1>>])
    /\ sortOption = "1"
    /\ sortedOut = <<>>
    /\ sortPc = "call"

\* sort option "2": sequences of the example names with ranges of any shape
SizeSortInit ==
    /\ \E names \in DistinctLists(ExampleNames, MaxSizeSeqs) :
          \E shapeOf \in [Range(names) -> SeqShapes] :
              sortRanges = RangesWithStrand(names, shapeOf)
    /\ sortOption = "2"
    /\ sortedOut = <<>>
    /\ sortPc = "call"

\* mySortedRanges, lines 411-428
SortRanges ==
    /\ sortPc = "call"
    /\ sortedOut' = SortedRangesOf(sortRanges, sortOption)
    /\ sortPc' = "return"
    /\ UNCHANGED <<sortRanges, sortOption>>
    /\ FrameBut("sort")

NextSort == SortRanges

InitNameSort == NameSortInit /\ IdleBut("sort")

SpecNameSort == InitNameSort /\ [][NextSort]_vars

InitSizeSort == SizeSortInit /\ IdleBut("sort")

SpecSizeSort == InitSizeSort /\ [][NextSort]_vars

\* -------------------------------------------------------- claims on sort
\* the names of the sequences in the order of the list, one per run
NameRuns(rs) == LET g == GroupByName(rs) IN [i \in DOMAIN g |-> g[i][1][1]]

\* the output holds the ranges of the input, and every sequence in one run
KeepsSequencesWhole ==
    /\ Len(sortedOut) = Len(sortRanges)
    /\ Range(sortedOut) = Range(sortRanges)
    /\ \A i, j \in DOMAIN NameRuns(sortedOut) :
          i # j => NameRuns(sortedOut)[i] # NameRuns(sortedOut)[j]

\* name na comes strictly before name nb in the natural order
NaturalOrder(na, nb) == KeyLess(natural_sort_key(na), natural_sort_key(nb))

\* C16: sort mode 1 puts the sequences in natural name order, digit runs
\* compared as numbers (c2 before c10; c2, c10, c1 gives c1, c2, c10), all
\* ranges of a sequence stay together, and the order is total: of two
\* distinct names one comes strictly before the other, so the output does
\* not depend on the input order.
C16_NaturalTotalOrder ==
    sortPc = "return" =>
        LET out == NameRuns(sortedOut)
        IN  /\ KeepsSequencesWhole
            /\ \A i \in 1..(Len(out) - 1) : NaturalOrder(out[i], out[i + 1])
            /\ Range(out) = {<<"c", "2">>, <<"c", "1", "0">>, <<"c", "1">>} =>
                   out = << <<"c", "1">>, <<"c", "2">>, <<"c", "1", "0">> >>

\* C16 as the code has it: a total preorder.  Names that differ only in
\* leading zeros of a digit run have equal keys and keep their input order.
C16_NaturalPreorder ==
    sortPc = "return" =>
        LET out == NameRuns(sortedOut)
            inp == NameRuns(sortRanges)
            Pos(l, n) == CHOOSE i \in DOMAIN l : l[i] = n
        IN  /\ KeepsSequencesWhole
            /\ \A i \in 1..(Len(out) - 1) : ~NaturalOrder(out[i + 1], out[i])
            /\ \A i, j \in DOMAIN out :
                  (i < j /\ natural_sort_key(out[i]) = natural_sort_key(out[j]))
                      => Pos(inp, out[i]) < Pos(inp, out[j])
            /\ \A i, j \in DOMAIN out :
                  (natural_sort_key(out[i]) = natural_sort_key(out[j]) /\ i # j)
                      => "0" \in Range(out[i]) \cup Range(out[j])
            /\ Range(out) = {<<"c", "2">>, <<"c", "1", "0">>, <<"c", "1">>} =>
                   out = << <<"c", "1">>, <<"c", "2">>, <<"c", "1", "0">> >>

\* C16 witness: c2, c10, c1 in this input order, sorted
C16_Witness ==
    /\ sortPc = "return"
    /\ sortOption = "1"
    /\ NameRuns(sortRanges) = << <<"c", "2">>, <<"c", "1", "0">>, <<"c", "1">> >>
    /\ NameRuns(sortedOut) = << <<"c", "1">>, <<"c", "2">>, <<"c", "1", "0">> >>

\* the total length of the ranges of the sequence with this name
TotalLengthOf(rs, name) ==
    SumSeq([i \in DOMAIN rs |-> IF rs[i][1] = name THEN rs[i][3] - rs[i][2] ELSE 0])

MaxPixRanges == 3
MaxPixSize == 3
MaxPixScale == 3
MaxPixBorder == 2
MaxPixMargin == 2

PixInit ==
    /\ pixSizes \in SeqsOf(1..MaxPixSize, 1, MaxPixRanges)
    /\ pixScale \in 1..MaxPixScale
    /\ pixBorder \in 0..MaxPixBorder
    /\ pixMargin \in 0..MaxPixMargin
    /\ pixResult = <<>>
    /\ pixPc = "call"

\* pixelData, lines 551-556
PixelData ==
    /\ pixPc = "call"
    /\ pixResult' = pixelData(pixSizes, pixScale, pixBorder, pixMargin)
    /\ pixPc' = "return"
    /\ UNCHANGED <<pixSizes, pixScale, pixBorder, pixMargin>>
    /\ FrameBut("pix")

NextPix == PixelData

InitPix == PixInit /\ IdleBut("pix")

SpecPix == InitPix /\ [][NextPix]_vars

\* the pixels [beg, beg + len) of span i
SpanPixels(res, i) ==
    res.rangePixBegs[i] .. (res.rangePixBegs[i] + res.rangePixLens[i] - 1)

\* C21: for positive range lengths, a scale S >= 1 and a border >= 0,
\* pixelData gives every range a span of ceil(length / S) >= 1 pixels, the
\* first span beginning at the margin and each next one beginning border
\* pixels after the previous one ends, so that the spans are pairwise
\* disjoint; the total extent is the end of the last span.
C21_PixelSpans ==
    pixPc = "return" =>
        LET n == Len(pixSizes)
            begs == pixResult.rangePixBegs
            lens == pixResult.rangePixLens
        IN  /\ Len(begs) = n /\ Len(lens) = n
            /\ \A i \in 1..n :
                   /\ lens[i] >= 1
                   /\ lens[i] * pixScale >= pixSizes[i]
                   /\ (lens[i] - 1) * pixScale < pixSizes[i]
            /\ begs[1] = pixMargin
            /\ \A i \in 1..(n - 1) : begs[i + 1] = begs[i] + lens[i] + pixBorder
            /\ \A i, j \in 1..n :
                   i # j => SpanPixels(pixResult, i) \cap SpanPixels(pixResult, j) = {}
            /\ pixResult.tot_pix = begs[n] + lens[n]

\* several ranges, one of them longer than the scale and not a multiple of
\* it, laid out with a border and a margin
C21_Witness ==
    /\ pixPc = "return"
    /\ Len(pixSizes) >= 2
    /\ pixBorder > 0
    /\ pixMargin > 0
    /\ \E i \in DOMAIN pixSizes :
           pixSizes[i] > pixScale /\ pixSizes[i] % pixScale # 0

\* ===================================================================== cover
\* readAlignments, lines 255-262: the alignment of the crop component is
\* cropped and, when blocks remain, its covered ranges are appended to the
\* coverage lists of its two sequences.

\* a record as alignmentInput yields it, against the sorted ranges that
\* rangesFromSeqName gives for requests with beg < end
CoverInit ==
    /\ CropInit
    /\ \A k \in DOMAIN blocks : blocks[k][3] > 0
    /\ \A k \in DOMAIN ranges1 : ranges1[k] \in ValidRanges(CropLen1)
    /\ \A k \in DOMAIN ranges2 : ranges2[k] \in ValidRanges(CropLen2)

\* readAlignments, lines 256-262: `if not b: continue`, then updateSeqs for
\* each axis
UpdateSeqs ==
    /\ cropPc = "done"
    /\ bList # <<>>
    /\ coverRanges1 = <<>>
    /\ coverRanges1' = Append(coverRanges1, CoveredRange(bList, 1))
    /\ coverRanges2' = Append(coverRanges2, CoveredRange(bList, 2))
    /\ FrameBut("cover")

InitCover == CoverInit /\ IdleBut("crop")

NextCover == CropBlocks \/ UpdateSeqs

SpecCover == InitCover /\ [][NextCover]_vars

\* the forward-strand interval of a block on an axis
ForwardInterval(blk, axis) ==
    IF blk[axis] < 0 THEN <<-(blk[axis] + blk[3]), -blk[axis]>>
    ELSE <<blk[axis], blk[axis] + blk[3]>>

\* [smallest forward begin, largest forward end) over the cropped blocks
ForwardExtent(blks, axis) ==
    LET ivs == {ForwardInterval(blks[k], axis) : k \in DOMAIN blks}
    IN  <<CHOOSE b \in {iv[1] : iv \in ivs} : \A iv \in ivs : b <= iv[1],
          CHOOSE e \in {iv[2] : iv \in ivs} : \A iv \in ivs : e >= iv[2]>>

\* the interval appended for an axis is the alignment's forward extent
AppendedExtent(cover, axis) ==
    cover # <<>> =>
        /\ cover[Len(cover)][1] < cover[Len(cover)][2]
        /\ cover[Len(cover)] = ForwardExtent(bList, axis)

\* C23: for a surviving alignment and each axis, the interval appended to
\* the coverage list has begin < end and is [smallest forward begin, largest
\* forward end) over the alignment's cropped blocks, on either strand and
\* with any number of requested ranges.
C23_OwnExtent ==
    /\ AppendedExtent(coverRanges1, 1)
    /\ AppendedExtent(coverRanges2, 2)

\* with one requested range per axis the appended interval is the extent
OneRangeOwnExtent ==
    (Len(ranges1) = 1 /\ Len(ranges2) = 1) => C23_OwnExtent

\* on the forward strands, with requested ranges that are not nested in one
\* another, the appended interval is the extent
NotNested(rs) ==
    \A i, j \in DOMAIN rs : i < j => rs[i][2] <= rs[j][2]
ForwardOwnExtent ==
    (strand1 = "+" /\ strand2 = "+" /\ NotNested(ranges1) /\ NotNested(ranges2))
        => C23_OwnExtent

\* ==================================================================== strand
\* rangesWithStrandInfo for the strand options "0" and "1".
MaxStrandAlns == 3

\* the block sizes of an alignment: one short block, or two blocks that are
\* longer together than two short alignments
StrandShapes == {<<1>>, <<2, 1>>}

\* the begins of a first block on the forward and on the reverse strand
StrandBegs == {0, -4}

RECURSIVE BlocksFrom(_, _, _)
\* gapless blocks of the given sizes, one after the other
BlocksFrom(beg1x, beg2x, sizes) ==
    IF sizes = <<>> THEN <<>>
    ELSE << <<beg1x, beg2x, Head(sizes)>> >>
         \o BlocksFrom(beg1x + Head(sizes), beg2x + Head(sizes), Tail(sizes))

StrandAlns(names1, names2) ==
    {<<n1, n2, BlocksFrom(b1, b2, shape)>> :
        n1 \in names1, n2 \in names2, b1 \in StrandBegs, b2 \in StrandBegs,
        shape \in StrandShapes}

\* one vote per alignment in place of its aligned letter pairs
AlignmentVote(aln) ==
    IF (aln[3][1][1] < 0) # (aln[3][1][2] < 0) THEN -1 ELSE 1

\* rangesWithStrandInfo, lines 359-364: numOfAlignedLetterPairs of alignment i
AlignedLetterPairs(aln) ==
    LET numOfAlignedLetterPairs == SumSeq([k \in DOMAIN aln[3] |-> aln[3][k][3]])
    IN  IF (aln[3][1][1] < 0) # (aln[3][1][2] < 0)
        THEN numOfAlignedLetterPairs * (-1)
        ELSE numOfAlignedLetterPairs

RECURSIVE ForwardMinusReverse(_, _, _)
\* rangesWithStrandInfo, lines 357-365: forwardMinusReverse[seqName], 0 for a
\* name the defaultdict has not seen
ForwardMinusReverse(alns, seqIndex, seqName) ==
    IF alns = <<>> THEN 0
    ELSE (IF Head(alns)[seqIndex + 1] = seqName
          THEN AlignedLetterPairs(Head(alns)) ELSE 0)
         + ForwardMinusReverse(Tail(alns), seqIndex, seqName)

\* rangesWithStrandInfo, lines 366-369
rangesWithStrandInfo(ranges, strandOpt, alns, seqIndex) ==
    [i \in DOMAIN ranges |->
        <<ranges[i][1], ranges[i][2], ranges[i][3],
          IF strandOpt = "1"
          THEN IF ForwardMinusReverse(alns, seqIndex, ranges[i][1]) >= 0
               THEN 1 ELSE 2
          ELSE 0>>]

\* allSortedRanges, lines 436-437: the ranges of an axis, one sequence with
\* two ranges and one with a single range, and the alignments of the group
StrandInit ==
    /\ strandIndex \in {0, 1}
    /\ strandOption \in {"0", "1"}
    /\ strandRanges = IF strandIndex = 0
                      THEN << <<"x", 0, 1>>, <<"y", 0, 2>>, <<"x", 2, 3>> >>
                      ELSE << <<"a", 0, 1>>, <<"b", 0, 2>>, <<"a", 2, 3>> >>
    /\ strandAlignments \in
           IF strandIndex = 0
           THEN SeqsOf(StrandAlns({"x", "y"}, {"a"}), 1, MaxStrandAlns)
           ELSE SeqsOf(StrandAlns({"x"}, {"a", "b"}), 1, MaxStrandAlns)
    /\ strandOut = <<>>
    /\ strandPc = "call"

\* allSortedRanges, line 436 or 437
RangesWithStrandInfo ==
    /\ strandPc = "call"
    /\ strandOut' = rangesWithStrandInfo(strandRanges, strandOption,
                                         strandAlignments, strandIndex)
    /\ strandPc' = "return"
    /\ UNCHANGED <<strandRanges, strandOption, strandAlignments, strandIndex>>
    /\ FrameBut("strand")

InitStrand == StrandInit /\ IdleBut("strand")

NextStrand == RangesWithStrandInfo

SpecStrand == InitStrand /\ [][NextStrand]_vars

\* the alignments of a sequence, and whether an alignment joins opposite
\* strands
AlnsOf(seqName) ==
    {k \in DOMAIN strandAlignments :
        strandAlignments[k][strandIndex + 1] = seqName}
OppositeStrands(k) ==
    LET first == strandAlignments[k][3][1]
    IN  (first[1] < 0 /\ first[2] >= 0) \/ (first[1] >= 0 /\ first[2] < 0)

\* the letter pairs of the alignments of a sequence that are (opposite =
\* TRUE) or are not (FALSE) between opposite strands
LetterPairsOf(seqName, opposite) ==
    SumSeq([k \in DOMAIN strandAlignments |->
               IF k \in AlnsOf(seqName) /\ OppositeStrands(k) = opposite
               THEN SumSeq([b \in DOMAIN strandAlignments[k][3] |->
                               strandAlignments[k][3][b][3]])
               ELSE 0])

\* C24: with strand option 1 a sequence gets strandNum 1 iff the letter
\* pairs of its alignments, those of opposite-strand alignments counted
\* negative, sum to 0 or more, and strandNum 2 otherwise; with another
\* option every range gets strandNum 0; the ranges themselves are kept, and
\* all ranges of a sequence get the same strandNum.
C24_StrandBySignedSum ==
    strandPc = "return" =>
        /\ Len(strandOut) = Len(strandRanges)
        /\ \A i \in DOMAIN strandOut :
              LET name == strandRanges[i][1]
                  forward == LetterPairsOf(name, FALSE) >= LetterPairsOf(name, TRUE)
              IN  /\ <<strandOut[i][1], strandOut[i][2], strandOut[i][3]>>
                        = strandRanges[i]
                  /\ strandOption = "1" =>
                        strandOut[i][4] = (IF forward THEN 1 ELSE 2)
                  /\ strandOption # "1" => strandOut[i][4] = 0
        /\ \A i, j \in DOMAIN strandOut :
              strandOut[i][1] = strandOut[j][1] => strandOut[i][4] = strandOut[j][4]

\* C24 witness: with option 1, one sequence has two same-strand alignments
\* and one longer opposite-strand alignment and is assigned the reverse
\* strand, and the other sequence is assigned the forward strand
C24_Witness ==
    /\ strandPc = "return"
    /\ strandOption = "1"
    /\ \E i, j \in DOMAIN strandOut :
          /\ strandOut[i][4] = 2
          /\ strandOut[j][4] = 1
          /\ Cardinality({k \in AlnsOf(strandOut[i][1]) : ~OppositeStrands(k)}) = 2
          /\ Cardinality({k \in AlnsOf(strandOut[i][1]) : OppositeStrands(k)}) = 1

\* ====================================================================== mode
\* mySortedRanges with the sort option "3", as allSortedRanges calls it for
\* the primary ranges (lines 447-450) and for the secondary ranges (lines
\* 451-452).
MaxModeAlns == 3
MaxModeAlnsB == 2

Abs(x) == IF x < 0 THEN -x ELSE x

\* what a dict lookup of a missing key, or a function without return, gives
NoValue == <<>>

\* rankAndFlipPerSeq, lines 393-399, and dict() of line 422:
\* otherNamesToRanksAndFlips[name]
RankAndFlip(otherRanges, name) ==
    LET g == GroupByName(otherRanges)
        found == {i \in DOMAIN g : g[i][1][1] = name}
    IN  IF found = {} THEN NoValue
        ELSE LET i == CHOOSE i \in found : \A j \in found : j <= i
             IN  <<i - 1, IF g[i][1][4] < 2 THEN 1 ELSE -1>>

\* alignmentSortData, lines 401-409: what is yielded for each alignment
alignmentSortData(alns, seqIndex, otherRanges) ==
    [k \in DOMAIN alns |->
        LET i == alns[k]
            blks == i[3]
            otherIndex == 1 - seqIndex
            rankFlip == RankAndFlip(otherRanges, i[otherIndex + 1])
        IN  IF rankFlip = NoValue THEN NoValue
            ELSE <<i[seqIndex + 1],
                   rankFlip[1],
                   rankFlip[2] * Abs(blks[1][otherIndex + 1]
                                     + blks[Len(blks)][otherIndex + 1]
                                     + blks[Len(blks)][3]),
                   SumSeq([b \in DOMAIN blks |-> blks[b][3]])>>]

\* tuple comparison of (rank, position) keys, None never being compared
PairLess(x, y) == x[1] < y[1] \/ (x[1] = y[1] /\ x[2] < y[2])

\* tuple comparison of the items of one sequence: (name, rank, pos, size)
DataLess(x, y) ==
    \/ PairLess(<<x[2], x[3]>>, <<y[2], y[3]>>)
    \/ (x[2] = y[2] /\ x[3] = y[3] /\ x[4] < y[4])

RECURSIVE InsertData(_, _)
InsertData(x, ds) ==
    IF ds = <<>> THEN <<x>>
    ELSE IF DataLess(x, Head(ds)) THEN <<x>> \o ds
    ELSE <<Head(ds)>> \o InsertData(x, Tail(ds))

RECURSIVE SortData(_)
\* sorted(), line 423, for the items of one sequence
SortData(ds) ==
    IF ds = <<>> THEN <<>>
    ELSE InsertData(ds[Len(ds)], SortData(SubSeq(ds, 1, Len(ds) - 1)))

\* lines 423-426: seqNamesToLists[seqName]; NoValue stands for a KeyError
SeqNamesToLists(data, seqName) ==
    LET mine == SelectSeq(data, LAMBDA d : d[1] = seqName)
    IN  IF mine = <<>> THEN NoValue ELSE SortData(mine)

\* alignmentKey, line 387: toMiddle = numOfAlignedLetterPairs // 2
Middle(total) == FloorDiv(total, 2)

RECURSIVE KeyFrom(_, _)
\* alignmentKey, lines 388-391: the loop; NoValue when it ends without return
KeyFrom(alnsOfSeq, toMiddle) ==
    IF alnsOfSeq = <<>> THEN NoValue
    ELSE IF toMiddle - Head(alnsOfSeq)[4] < 0
         THEN <<Head(alnsOfSeq)[2], Head(alnsOfSeq)[3]>>
    ELSE KeyFrom(Tail(alnsOfSeq), toMiddle - Head(alnsOfSeq)[4])

\* alignmentKey, lines 383-391, for a sequence that has alignments
alignmentKey(data, oneSeqRanges) ==
    LET alignmentsOfThisSequence == SeqNamesToLists(data, oneSeqRanges[1][1])
        numOfAlignedLetterPairs ==
            SumSeq([k \in DOMAIN alignmentsOfThisSequence |->
                       alignmentsOfThisSequence[k][4]])
    IN  KeyFrom(alignmentsOfThisSequence, Middle(numOfAlignedLetterPairs))

RECURSIVE InsertByAlignment(_, _, _)
InsertByAlignment(data, x, gs) ==
    IF gs = <<>> THEN <<x>>
    ELSE IF PairLess(alignmentKey(data, x), alignmentKey(data, Head(gs)))
         THEN <<x>> \o gs
    ELSE <<Head(gs)>> \o InsertByAlignment(data, x, Tail(gs))

RECURSIVE SortByAlignment(_, _)
\* g.sort(key=functools.partial(alignmentKey, seqNamesToLists)), line 427
SortByAlignment(data, gs) ==
    IF gs = <<>> THEN <<>>
    ELSE InsertByAlignment(data, gs[Len(gs)],
                           SortByAlignment(data, SubSeq(gs, 1, Len(gs) - 1)))

\* mySortedRanges, lines 411-416 and 421-428, sort option "3": err is TRUE
\* when a dict lookup raises KeyError
SortedByAlignments(ranges, seqIndex, alns, otherRanges) ==
    LET g == GroupByName(ranges)
        flipped == [i \in DOMAIN g |-> IF g[i][1][4] > 1 THEN Reversed(g[i]) ELSE g[i]]
        data == alignmentSortData(alns, seqIndex, otherRanges)
    IN  IF \/ \E k \in DOMAIN data : data[k] = NoValue
           \/ \E i \in DOMAIN g : SeqNamesToLists(data, g[i][1][1]) = NoValue
        THEN [err |-> TRUE, out |-> <<>>]
        ELSE [err |-> FALSE, out |-> Flatten(SortByAlignment(data, flipped))]

\* the sequences of the axis being sorted and of the other axis: those of
\* the primary alignments, and those that only secondary alignments have
ModeOwn == {"x", "y"}
ModeOther == {"a", "b"}
ModeOwnB == {"z", "w"}
ModeOtherB == {"c"}

\* the block sizes of an alignment and the begin of its first block on the
\* other axis
ModeShapes == {<<1>>, <<1, 1>>}
ModeBegs == {0, 1}

\* the alignments between the named sequences; pair[1] is on the axis
\* being sorted
ModeAlns(pairs, seqIndex) ==
    {IF seqIndex = 0
     THEN <<pair[1], pair[2], BlocksFrom(0, b, shape)>>
     ELSE <<pair[2], pair[1], BlocksFrom(b, 0, shape)>> :
        pair \in pairs, b \in ModeBegs, shape \in ModeShapes}

\* the sorted ranges of the other axis: its sequences in any order, each
\* on either strand
OtherOrders(names) ==
    {[i \in DOMAIN l |-> <<l[i], 0, 3, strandOf[l[i]]>>] :
        l \in {m \in DistinctLists(names, Cardinality(names)) :
                   Len(m) = Cardinality(names)},
        strandOf \in [names -> {0, 2}]}

\* allSortedRanges, lines 447-450: the primary alignments and ranges after
\* the filter of lines 972-980, every sequence having an alignment; or lines
\* 451-452: the alignments readSecondaryAlignments keeps, at least one
\* sequence of each being a primary one, the ranges of the secondary
\* sequences of the axis and the sorted primary ranges of the other axis
ModeInit ==
    /\ modeCall \in {"primary", "secondary"}
    /\ modeIndex \in {0, 1}
    /\ IF modeCall = "primary"
       THEN /\ modeAlignments \in
                   SeqsOf(ModeAlns(ModeOwn \X ModeOther, modeIndex), 1, MaxModeAlns)
            /\ modeOther \in OtherOrders(Range(FirstSeen(modeAlignments, 2 - modeIndex)))
            /\ modeRanges = LET names == FirstSeen(modeAlignments, modeIndex + 1)
                            IN  [i \in DOMAIN names |-> <<names[i], 0, 2, 0>>]
       ELSE /\ modeAlignments \in
                   SeqsOf(ModeAlns(({"x"} \X ({"a"} \cup ModeOtherB))
                                       \cup (ModeOwnB \X ModeOther), modeIndex),
                          1, MaxModeAlnsB)
            /\ modeOther \in OtherOrders(ModeOther)
            /\ modeRanges =
                   LET names == SelectSeq(FirstSeen(modeAlignments, modeIndex + 1),
                                          LAMBDA n : n \in ModeOwnB)
                   IN  [i \in DOMAIN names |-> <<names[i], 0, 2, 0>>]
    /\ modeOut = <<>>
    /\ modePc = "call"

\* mySortedRanges, lines 421-428
SortByAlignments ==
    /\ modePc = "call"
    /\ \E res \in {SortedByAlignments(modeRanges, modeIndex, modeAlignments, modeOther)} :
          /\ modeOut' = res.out
          /\ modePc' = IF res.err THEN "KeyError" ELSE "return"
    /\ UNCHANGED <<modeCall, modeRanges, modeIndex, modeAlignments, modeOther>>
    /\ FrameBut("mode")

InitMode == ModeInit /\ IdleBut("mode")

NextMode == SortByAlignments

SpecMode == InitMode /\ [][NextMode]_vars

\* ---------------------------------------------------- claims on sort mode 3
\* the alignments of a sequence of the axis being sorted
ModeAlnsOf(seqName) ==
    {k \in DOMAIN modeAlignments : modeAlignments[k][modeIndex + 1] = seqName}

\* the partner of alignment k, and its rank: the number of sequences before
\* it on the other axis
PartnerOf(k) == modeAlignments[k][2 - modeIndex]
HasRank(name) == \E i \in DOMAIN modeOther : modeOther[i][1] = name
PartnerRank(k) ==
    Cardinality({modeOther[i][1] : i \in
                    {i \in DOMAIN modeOther :
                        \A j \in DOMAIN modeOther :
                            modeOther[j][1] = PartnerOf(k) => i < j}})

\* the position of alignment k on its partner: begin of the first block plus
\* end of the last block, negative on a reversed partner
PartnerPos(k) ==
    LET blks == modeAlignments[k][3]
        axis == 2 - modeIndex
        strandNum == (CHOOSE r \in Range(modeOther) : r[1] = PartnerOf(k))[4]
        pos == Abs(blks[1][axis] + blks[Len(blks)][axis] + blks[Len(blks)][3])
    IN  IF strandNum < 2 THEN pos ELSE -pos

PartnerKey(k) == <<PartnerRank(k), PartnerPos(k)>>
LettersOf(k) == SumSeq([b \in DOMAIN modeAlignments[k][3] |-> modeAlignments[k][3][b][3]])

\* the letter pairs of the alignments of a set
RECURSIVE LettersOfAll(_)
LettersOfAll(ks) ==
    IF ks = {} THEN 0
    ELSE LET k == CHOOSE k \in ks : TRUE IN LettersOf(k) + LettersOfAll(ks \ {k})

\* the key of a sequence: the least partner key at which the letter pairs of
\* the alignments up to that key exceed half the total, rounded down
PlacementKey(seqName) ==
    LET mine == ModeAlnsOf(seqName)
        upTo(key) == {k \in mine : ~PairLess(key, PartnerKey(k))}
        over == {PartnerKey(k) : k \in
                    {k \in mine : LettersOfAll(upTo(PartnerKey(k)))
                                      > LettersOfAll(mine) \div 2}}
    IN  CHOOSE key \in over : \A other \in over : ~PairLess(other, key)

\* the sequences come out by ascending placement key
AscendingKeys ==
    /\ Len(modeOut) = Len(modeRanges)
    /\ Range(modeOut) = Range(modeRanges)
    /\ \A i, j \in DOMAIN modeOut :
          i < j => ~PairLess(PlacementKey(modeOut[j][1]), PlacementKey(modeOut[i][1]))

\* C25: in sort mode 3 every sequence of the axis being sorted gets a
\* defined key, the (partner rank, partner position) of the first of its
\* alignments, sorted by that pair, at which the letter pairs summed so far
\* exceed floor(T/2); the sequences come out by ascending key; and every
\* alignment's partner has a rank on the other axis.
C25_DefinedKeys ==
    modePc # "call" =>
        /\ \A k \in DOMAIN modeAlignments : HasRank(PartnerOf(k))
        /\ modePc = "return"
        /\ AscendingKeys

\* for the primary ranges the claim holds
PrimaryDefinedKeys == modeCall = "primary" => C25_DefinedKeys

\* two sequences were put in the order of their keys, against the order they
\* came in, one of them with alignments to both partners
PrimaryKeysWitness ==
    /\ modeCall = "primary"
    /\ modePc = "return"
    /\ Len(modeOut) = 2
    /\ modeOut # modeRanges
    /\ \E k, l \in ModeAlnsOf(modeOut[1][1]) : PartnerOf(k) # PartnerOf(l)

\* ======================================================================= maf
\* mafBlocks: the gapless blocks of two rows of aligned text.
MaxMafLen == 4

\* the start coordinates: forward-strand ones and a reverse-strand one
MafBegs == {0, 2, -5}

\* the columns of an alignment: a letter pair, or a letter against a gap
MafColumns == {<<"A", "C">>, <<"A", "-">>, <<"-", "C">>}

\* a gap column that moves the coordinate of the row holding the gap
GapAdvanceSwapped(gapInRow) == IF gapInRow THEN 1 ELSE 0

\* mafBlocks, lines 84 and 91: past a gap column the row with the letter
\* moves on by one, the row with the gap stays
GapAdvance(gapInRow) == IF gapInRow THEN 0 ELSE 1

RECURSIVE MafBlocksFrom(_, _, _, _, _)
\* mafBlocks, lines 77-94: the loop over zip(seq1, seq2) from some column on,
\* with beg1, beg2 and size as they are before the column
MafBlocksFrom(beg1x, beg2x, seq1, seq2, sizeSoFar) ==
    LET blockSoFar == IF sizeSoFar # 0 THEN << <<beg1x, beg2x, sizeSoFar>> >> ELSE <<>>
    IN  IF seq1 = <<>> \/ seq2 = <<>> THEN blockSoFar
        ELSE IF Head(seq1) = "-"
             THEN blockSoFar \o MafBlocksFrom(beg1x + sizeSoFar + GapAdvance(TRUE),
                                           beg2x + sizeSoFar + GapAdvance(FALSE),
                                           Tail(seq1), Tail(seq2), 0)
        ELSE IF Head(seq2) = "-"
             THEN blockSoFar \o MafBlocksFrom(beg1x + sizeSoFar + GapAdvance(FALSE),
                                           beg2x + sizeSoFar + GapAdvance(TRUE),
                                           Tail(seq1), Tail(seq2), 0)
        ELSE MafBlocksFrom(beg1x, beg2x, Tail(seq1), Tail(seq2), sizeSoFar + 1)

\* mafBlocks, lines 74-94
mafBlocks(beg1x, beg2x, seq1, seq2) == MafBlocksFrom(beg1x, beg2x, seq1, seq2, 0)

\* alignmentInput: two rows of equal length without a column of two gaps
MafInit ==
    /\ mafBeg1 \in MafBegs
    /\ mafBeg2 \in MafBegs
    /\ \E cols \in SeqsOf(MafColumns, 1, MaxMafLen) :
          /\ mafSeq1 = [i \in DOMAIN cols |-> cols[i][1]]
          /\ mafSeq2 = [i \in DOMAIN cols |-> cols[i][2]]
    /\ mafOut = <<>>
    /\ mafPc = "call"

\* list(mafBlocks(beg1, beg2, seq1, seq2))
MafBlocks ==
    /\ mafPc = "call"
    /\ mafOut' = mafBlocks(mafBeg1, mafBeg2, mafSeq1, mafSeq2)
    /\ mafPc' = "return"
    /\ UNCHANGED <<mafBeg1, mafBeg2, mafSeq1, mafSeq2>>
    /\ FrameBut("maf")

InitMaf == MafInit /\ IdleBut("maf")

NextMaf == MafBlocks

SpecMaf == InitMaf /\ [][NextMaf]_vars

\* ------------------------------------------------------ claims on mafBlocks
\* the columns without a gap
GapFree == {i \in DOMAIN mafSeq1 : mafSeq1[i] # "-" /\ mafSeq2[i] # "-"}

\* the first columns of the maximal runs of gap-free columns, ascending
GapFreeRunStarts ==
    SelectSeq([i \in DOMAIN mafSeq1 |-> i],
              LAMBDA i : i \in GapFree /\ (i - 1) \notin GapFree)

\* the length of the maximal run that starts at column s
RunSize(s) ==
    CHOOSE n \in 1..Len(mafSeq1) :
        /\ \A i \in s..(s + n - 1) : i \in GapFree
        /\ (s + n) \notin GapFree

\* the number of letters of a row before column s
LettersBefore(row, s) == Cardinality({i \in 1..(s - 1) : row[i] # "-"})

\* C26: for two rows of equal length without a column of two gaps,
\* mafBlocks yields the maximal runs of gap-free columns in order, each as
\* (begin1, begin2, size) with size > 0 the length of the run and the begins
\* the start coordinates plus the letters of the row before the run; the
\* blocks increase strictly without overlap in both coordinates and the
\* sizes sum to the number of gap-free columns.
C26_MaximalRuns ==
    mafPc = "return" =>
        /\ mafOut = [j \in DOMAIN GapFreeRunStarts |->
                        <<mafBeg1 + LettersBefore(mafSeq1, GapFreeRunStarts[j]),
                          mafBeg2 + LettersBefore(mafSeq2, GapFreeRunStarts[j]),
                          RunSize(GapFreeRunStarts[j])>>]
        /\ \A j \in DOMAIN mafOut : mafOut[j][3] > 0
        /\ \A j \in 1..(Len(mafOut) - 1) :
              /\ mafOut[j][1] + mafOut[j][3] <= mafOut[j + 1][1]
              /\ mafOut[j][2] + mafOut[j][3] <= mafOut[j + 1][2]
        /\ SumSeq([j \in DOMAIN mafOut |-> mafOut[j][3]]) = Cardinality(GapFree)

\* C26 witness: rows with a gap in each of them, several blocks, the second
\* row on the reverse strand
C26_Witness ==
    /\ mafPc = "return"
    /\ Len(mafOut) >= 2
    /\ \E i \in DOMAIN mafSeq1 : mafSeq1[i] = "-"
    /\ \E i \in DOMAIN mafSeq2 : mafSeq2[i] = "-"
    /\ mafBeg2 < 0

\* -------------------------------------------- claims on the ranges to trim
\* the merged coverage of the sequence has an interval that overlaps range r
OverlapsCoverage(r) ==
    \E c \in Range(MergeOf(ingestCover1)) : c[1] < r[3] /\ c[2] > r[2]

\* C27: every range that reaches trimmed overlaps at least one merged
\* coverage interval of its sequence, so that blocks[0] and blocks[-1] in
\* trimmed are defined, also when a sequence has several requested ranges
\* and the cropped blocks of its alignments lie in only some of them.
C27_RangesOverlapCoverage ==
    ingestPc \in {"cut", "done", "IndexError"} =>
        /\ \A i \in DOMAIN ingestRanges1 : OverlapsCoverage(ingestRanges1[i])
        /\ ingestPc # "IndexError"

\* what does hold: the range of a sequence matched by one request only
\* overlaps the coverage
SingleRequestOverlaps ==
    Len(SelectSeq(seqRequests1, LAMBDA q : FnMatch("x", q[1]))) <= 1 =>
        C27_RangesOverlapCoverage

====
